---- MODULE Spec2Model ----
(***************************************************************************)
(* Model of scripts/check_fail_fast.py (the AST visitor FailFastChecker    *)
(* with its two active rules, check_file, check_path and main), of         *)
(* src/core/base/validated.py, of src/models/base.py and of                *)
(* scripts/check_test_count.py.  Each program has its specification; the   *)
(* variables of the programs that do not run in it hold nothing.           *)
(*                                                                         *)
(* Python strings are modelled as sequences of one-character strings (a    *)
(* number is one piece, written by str), so that substring, prefix and     *)
(* lower-casing are computed as the code computes them.  The syntax tree   *)
(* is a tree of records [type, name, args, body, ops, lineno].             *)
(***************************************************************************)
EXTENDS Integers, Sequences, FiniteSets, TLC

VARIABLES
    pc,             \* position of the running program
    node,           \* SpecRules: the function definition handed to the visitor
    violations,     \* SpecRules: FailFastChecker.violations
    fs,             \* Spec: the content of the source files on disk
    argv,           \* Spec: sys.argv[1:]
    idx,            \* Spec: position of main's loop over sys.argv[1:]
    all_violations, \* Spec: main's all_violations
    stdout,         \* Spec: the lines printed so far
    rc,             \* Spec: main's return value (NoRc while running)
    analysed,       \* Spec: history of the files handed to check_file
    prev,           \* Spec: what the earlier runs of main printed and returned
    obj,            \* SpecValidated: the processor or transformer object
    inputs,         \* SpecValidated: the argument of the running call
    calls,          \* SpecValidated: history of the methods called, with argument
    output,         \* SpecValidated: what the call returned, if it returned
    exc,            \* SpecValidated: what the call raised, if it raised
    cls,            \* SpecModels: the model class
    inst,           \* SpecModels: the instance, if one was created
    attrs,          \* SpecModels: attributes of the instance that are no fields
    last_op,        \* SpecModels: the last operation and what it raised
    baseline_file,  \* SpecCount: tests/.test_count_baseline
    current_count,  \* SpecCount: the number of tests the script counts
    last_run,       \* SpecCount: the last run of main and what it did
    ns_files,       \* SpecNosemgrep: the files on disk and their lines
    ns_paths,       \* SpecNosemgrep: sys.argv[1:]
    ns_idx,         \* SpecNosemgrep: position of main's loop over the paths
    ns_violations,  \* SpecNosemgrep: main's all_violations
    ns_checked,     \* SpecNosemgrep: history of the files handed to check_file
    ns_rc,          \* SpecNosemgrep: main's return value (NoRc while running)
    tr_argv,        \* SpecRunner: sys.argv[1:]
    modules,        \* SpecRunner: the modules of config/venvs.yaml
    selected,       \* SpecRunner: the modules main iterates over
    mod_idx,        \* SpecRunner: position of main's loop over the modules
    all_results,    \* SpecRunner: main's all_results
    total_passed,   \* SpecRunner: main's total_passed
    total_failed,   \* SpecRunner: main's total_failed
    tool_runs,      \* SpecRunner: history of the tools run in the venvs
    summary,        \* SpecRunner: the RESULT line main printed
    tr_rc           \* SpecRunner: main's return value (NoRc while running)

\* the variables of the linter (SpecRules, SpecTree, Spec)
linter_vars == <<node, violations, fs, argv, idx, all_violations, stdout, rc,
                 analysed, prev>>
\* the variables of src/core/base/validated.py
validated_vars == <<obj, inputs, calls, output, exc>>
\* the variables of src/models/base.py
models_vars == <<cls, inst, attrs, last_op>>
\* the variables of scripts/check_test_count.py
count_vars == <<baseline_file, current_count, last_run>>
\* the variables of scripts/check_nosemgrep.py
nosemgrep_vars == <<ns_files, ns_paths, ns_idx, ns_violations, ns_checked, ns_rc>>
\* the variables of scripts/run_all_tests.py
runner_vars == <<tr_argv, modules, selected, mod_idx, all_results, total_passed,
                 total_failed, tool_runs, summary, tr_rc>>
tools_vars == <<nosemgrep_vars, runner_vars>>

\* the variables of the other programs, which the linter leaves alone
foreign == <<validated_vars, models_vars, count_vars, tools_vars>>
others == <<prev, foreign>>

vars == <<pc, node, violations, fs, argv, idx, all_violations, stdout, rc, analysed,
          others>>

\* a program that does not run in the specification at hand: its variables
\* hold nothing
ValidatedIdle ==
    /\ obj = <<>>
    /\ inputs = <<>>
    /\ calls = <<>>
    /\ output = <<>>
    /\ exc = <<>>
ModelsIdle ==
    /\ cls = <<>>
    /\ inst = <<>>
    /\ attrs = <<>>
    /\ last_op = <<>>
CountIdle ==
    /\ baseline_file = <<>>
    /\ current_count = 0
    /\ last_run = <<>>
NosemgrepIdle ==
    /\ ns_files = <<>>
    /\ ns_paths = <<>>
    /\ ns_idx = 0
    /\ ns_violations = <<>>
    /\ ns_checked = {}
    /\ ns_rc = 0
RunnerIdle ==
    /\ tr_argv = <<>>
    /\ modules = <<>>
    /\ selected = <<>>
    /\ mod_idx = 0
    /\ all_results = <<>>
    /\ total_passed = 0
    /\ total_failed = 0
    /\ tool_runs = <<>>
    /\ summary = <<>>
    /\ tr_rc = 0
ToolsIdle == NosemgrepIdle /\ RunnerIdle

-----------------------------------------------------------------------------
(* Bounds of the model *)

\* most parameters (positional-only + positional + keyword-only) of a function
MaxParams == 3

\* most argument paths on the command line
MaxArgv == 2

\* most runs of main on the same files
MaxRuns == 2

\* most definitions (functions and classes) of a parsed file in SpecTree
MaxDefs == 3

\* greatest absolute value of an input of a processor or transformer
MaxValue == 1

\* most calls of run or __call__ on one object
MaxCalls == 2

\* most attribute assignments on one model instance
MaxAssign == 1

\* greatest number of tests, and greatest number in the baseline file
MaxCount == 3

-----------------------------------------------------------------------------
(* Python strings *)

S_self == <<"s", "e", "l", "f">>
S_None == <<"N", "o", "n", "e">>
S_dict == <<"d", "i", "c", "t">>
S_test == <<"t", "e", "s", "t">>
S_conftest == <<"c", "o", "n", "f", "t", "e", "s", "t">>
S_py == <<".", "p", "y">>

\* sub in s
Contains(s, sub) ==
    \E i \in 0..(Len(s) - Len(sub)) :
        \A j \in 1..Len(sub) : s[i + j] = sub[j]

\* s.startswith(prefix)
startswith(s, prefix) ==
    /\ Len(prefix) <= Len(s)
    /\ \A j \in 1..Len(prefix) : s[j] = prefix[j]

\* s.endswith(suffix)
endswith(s, suffix) ==
    /\ Len(suffix) <= Len(s)
    /\ \A j \in 1..Len(suffix) : s[Len(s) - Len(suffix) + j] = suffix[j]

UpperToLower ==
    [A |-> "a", B |-> "b", C |-> "c", D |-> "d", E |-> "e", F |-> "f", G |-> "g",
     H |-> "h", I |-> "i", J |-> "j", K |-> "k", L |-> "l", M |-> "m", N |-> "n",
     O |-> "o", P |-> "p", Q |-> "q", R |-> "r", S |-> "s", T |-> "t", U |-> "u",
     V |-> "v", W |-> "w", X |-> "x", Y |-> "y", Z |-> "z"]

\* s.lower()
lower(s) ==
    [i \in 1..Len(s) |->
        IF s[i] \in DOMAIN UpperToLower THEN UpperToLower[s[i]] ELSE s[i]]

\* str(n) for a number: one piece
str(n) == <<ToString(n)>>

-----------------------------------------------------------------------------
(* The syntax tree *)

\* Python's None, where the tree holds no annotation or no default
PyNone == [type |-> "NoneType", id |-> <<>>, kids |-> <<>>]

\* expressions: [type, id, kids]
Name(id) == [type |-> "Name", id |-> id, kids |-> <<>>]
Constant(repr) == [type |-> "Constant", id |-> repr, kids |-> <<>>]
BinOpBitOr(l, r) == [type |-> "BinOp", id |-> <<>>, kids |-> <<l, r>>]
Subscript(v, s) == [type |-> "Subscript", id |-> <<>>, kids |-> <<v, s>>]

\* ast.unparse of an annotation expression
RECURSIVE unparse(_)
unparse(e) ==
    CASE e.type = "Name" -> e.id
      [] e.type = "Constant" -> e.id
      [] e.type = "BinOp" ->
            unparse(e.kids[1]) \o <<" ", "|", " ">> \o unparse(e.kids[2])
      [] e.type = "Subscript" ->
            unparse(e.kids[1]) \o <<"[">> \o unparse(e.kids[2]) \o <<"]">>
      [] OTHER -> <<>>

\* ast.arg
Arg(name, annotation) == [arg |-> name, annotation |-> annotation]

\* ast.arguments, as the parser builds it from a signature: defaults holds the
\* defaults of the positional parameters (a suffix of posonlyargs + args),
\* kw_defaults one entry per keyword-only parameter, None where it has none.
arguments(posonly, positional, kwonly) ==
    [posonlyargs |-> [i \in 1..Len(posonly) |->
                        Arg(posonly[i].arg, posonly[i].annotation)],
     args        |-> [i \in 1..Len(positional) |->
                        Arg(positional[i].arg, positional[i].annotation)],
     kwonlyargs  |-> [i \in 1..Len(kwonly) |->
                        Arg(kwonly[i].arg, kwonly[i].annotation)],
     defaults    |-> SelectSeq([i \in 1..(Len(posonly) + Len(positional)) |->
                                  (posonly \o positional)[i].default],
                               LAMBDA d : d # PyNone),
     kw_defaults |-> [i \in 1..Len(kwonly) |-> kwonly[i].default]]

NoArguments == arguments(<<>>, <<>>, <<>>)

\* statements and definitions: [type, name, args, body, ops, lineno]
FunctionDef(name, args, body, lineno) ==
    [type |-> "FunctionDef", name |-> name, args |-> args, body |-> body,
     ops |-> <<>>, lineno |-> lineno]
AsyncFunctionDef(name, args, body, lineno) ==
    [type |-> "AsyncFunctionDef", name |-> name, args |-> args, body |-> body,
     ops |-> <<>>, lineno |-> lineno]
Module(body) ==
    [type |-> "Module", name |-> <<>>, args |-> NoArguments, body |-> body,
     ops |-> <<>>, lineno |-> 0]
Raise(lineno) ==
    [type |-> "Raise", name |-> <<>>, args |-> NoArguments, body |-> <<>>,
     ops |-> <<>>, lineno |-> lineno]
Compare(ops, lineno) ==
    [type |-> "Compare", name |-> <<>>, args |-> NoArguments, body |-> <<>>,
     ops |-> ops, lineno |-> lineno]
Return(lineno) ==
    [type |-> "Return", name |-> <<>>, args |-> NoArguments, body |-> <<>>,
     ops |-> <<>>, lineno |-> lineno]
Pass(lineno) ==
    [type |-> "Pass", name |-> <<>>, args |-> NoArguments, body |-> <<>>,
     ops |-> <<>>, lineno |-> lineno]
ClassDef(name, body, lineno) ==
    [type |-> "ClassDef", name |-> name, args |-> NoArguments, body |-> body,
     ops |-> <<>>, lineno |-> lineno]

\* ast.walk(n): n and every node below it
RECURSIVE walk(_)
walk(n) == {n} \cup UNION {walk(n.body[i]) : i \in 1..Len(n.body)}

-----------------------------------------------------------------------------
(* FailFastChecker *)

\* the pieces of the two rule messages and of the parse diagnostic
RuleTag == <<"[", "!", "]">>
ParseTag == <<"[", "X", "]">>

\* the closing texts of the two rule messages
Rule1Text == " parameters with defaults (>50%). Consider making some required."
Rule2Text == "' takes dict but has no validation. Add: if 'key' not in dict: raise ValueError(...)"

\* f"{filename}:{lineno}: [!] Function '{name}' has {n}/{e} parameters with
\* defaults (>50%). Consider making some required."
ExcessiveDefaultsMessage(filename, n, nd, ep) ==
    filename \o <<":">> \o str(n.lineno) \o <<":", " ">> \o RuleTag
        \o <<" Function '">> \o n.name \o <<"' has ">> \o str(nd)
        \o <<"/">> \o str(ep)
        \o <<Rule1Text>>

\* f"{filename}:{lineno}: [!] Function '{name}' takes dict but has no
\* validation. Add: if 'key' not in dict: raise ValueError(...)"
DictWithoutValidationMessage(filename, n) ==
    filename \o <<":">> \o str(n.lineno) \o <<":", " ">> \o RuleTag
        \o <<" Function '">> \o n.name \o <<Rule2Text>>

total_params(args) ==
    Len(args.args) + Len(args.posonlyargs) + Len(args.kwonlyargs)

\* sum(1 for d in args.kw_defaults if d is not None) + len(args.defaults)
num_defaults(args) ==
    Len(SelectSeq(args.kw_defaults, LAMBDA d : d # PyNone)) + Len(args.defaults)

\* total_params, less one when args.args[0] is named self
effective_params(args) ==
    IF Len(args.args) > 0 /\ args.args[1].arg = S_self
    THEN total_params(args) - 1
    ELSE total_params(args)

\* lines 74-79: the single parameter with "| None = None"; the parameter looked
\* at is args.args[-1], and only the text of its annotation is tested
single_optional_skip(args) ==
    /\ effective_params(args) = 1
    /\ num_defaults(args) = 1
    /\ Len(args.args) > 0
    /\ args.args[Len(args.args)].annotation # PyNone
    /\ Contains(unparse(args.args[Len(args.args)].annotation), S_None)

\* num_defaults / effective_params > 0.5: the quotient of two small integers
\* exceeds one half exactly when twice the numerator exceeds the denominator
more_than_half(n, e) == e > 0 /\ 2 * n > e

\* mutant: the rule without the early return of lines 60-61
check_excessive_defaults_no_skip(v, filename, n) ==
    IF single_optional_skip(n.args) THEN v
    ELSE IF more_than_half(num_defaults(n.args), effective_params(n.args))
         THEN Append(v, ExcessiveDefaultsMessage(filename, n,
                            num_defaults(n.args), effective_params(n.args)))
         ELSE v

\* _check_excessive_defaults: the violations list after the rule
check_excessive_defaults(v, filename, n) ==
    IF total_params(n.args) <= 1 THEN v
    ELSE IF single_optional_skip(n.args) THEN v
    ELSE IF more_than_half(num_defaults(n.args), effective_params(n.args))
         THEN Append(v, ExcessiveDefaultsMessage(filename, n,
                            num_defaults(n.args), effective_params(n.args)))
         ELSE v

\* lines 91-97: some parameter of args.args is annotated with a text that holds
\* "dict" once lower-cased
has_dict_param(n) ==
    \E i \in 1..Len(n.args.args) :
        /\ n.args.args[i].annotation # PyNone
        /\ Contains(lower(unparse(n.args.args[i].annotation)), S_dict)

\* mutant: only the statements of the function itself are searched, not
\* those of the functions nested in it
has_validation_own_statements(n) ==
    \E i \in 1..Len(n.body) :
        \/ n.body[i].type = "Raise"
        \/ /\ n.body[i].type = "Compare"
           /\ \E k \in 1..Len(n.body[i].ops) : n.body[i].ops[k] \in {"NotIn", "In"}

\* mutant: only a Raise counts as validation
has_validation_raise_only(n) ==
    \E child \in walk(n) : child.type = "Raise"

\* lines 103-112: a Raise, or a Compare with an In or NotIn operator, anywhere
\* in ast.walk(node)
has_validation(n) ==
    \E child \in walk(n) :
        \/ child.type = "Raise"
        \/ /\ child.type = "Compare"
           /\ \E k \in 1..Len(child.ops) : child.ops[k] \in {"NotIn", "In"}

\* _check_dict_without_validation: the violations list after the rule
check_dict_without_validation(v, filename, n) ==
    IF ~has_dict_param(n) THEN v
    ELSE IF ~has_validation(n)
         THEN Append(v, DictWithoutValidationMessage(filename, n))
         ELSE v

\* _check_has_validation: the rule is disabled and appends nothing
check_has_validation(v, filename, n) == v

\* mutant: only the "_" prefix exempts
is_exempt_name_private_only(name) == startswith(name, <<"_">>)

\* the two name tests of visit_FunctionDef
is_exempt_name(name) ==
    startswith(name, <<"_">>) \/ startswith(name, S_test)

RECURSIVE visit(_, _, _), generic_visit(_, _, _), visit_children(_, _, _, _)

\* mutant: the definitions inside n are visited before n itself is checked
visit_FunctionDef_children_first(v, filename, n) ==
    IF is_exempt_name(n.name)
    THEN generic_visit(v, filename, n)
    ELSE check_has_validation(
            check_dict_without_validation(
                check_excessive_defaults(generic_visit(v, filename, n), filename, n),
                filename, n),
            filename, n)

\* visit_FunctionDef: the violations list after visiting the definition n
visit_FunctionDef(v, filename, n) ==
    IF is_exempt_name(n.name)
    THEN generic_visit(v, filename, n)
    ELSE generic_visit(
            check_has_validation(
                check_dict_without_validation(
                    check_excessive_defaults(v, filename, n),
                    filename, n),
                filename, n),
            filename, n)

\* NodeVisitor.visit: dispatch on the class of the node; only visit_FunctionDef
\* is defined, every other class goes to generic_visit
visit(v, filename, n) ==
    IF n.type = "FunctionDef"
    THEN visit_FunctionDef(v, filename, n)
    ELSE generic_visit(v, filename, n)

\* NodeVisitor.generic_visit: visit the children in source order
generic_visit(v, filename, n) == visit_children(v, filename, n.body, 1)

visit_children(v, filename, body, i) ==
    IF i > Len(body) THEN v
    ELSE visit_children(visit(v, filename, body[i]), filename, body, i + 1)

-----------------------------------------------------------------------------
(* The function definitions handed to the visitor in SpecRules *)

S_int == <<"i", "n", "t">>
S_Optional == <<"O", "p", "t", "i", "o", "n", "a", "l">>

\* int | None
Ann_int_or_None == BinOpBitOr(Name(S_int), Constant(S_None))
\* Optional[int]
Ann_Optional_int == Subscript(Name(S_Optional), Name(S_int))
\* dict
Ann_dict == Name(S_dict)

\* an annotation, or none
Annotations == {PyNone, Ann_int_or_None, Ann_Optional_int, Ann_dict}

\* a default value (None or 1), or none
Default_None == Constant(S_None)
Default_1 == Constant(<<"1">>)
Defaults == {PyNone, Default_None, Default_1}

ParamNames == <<"a", "b", "c", "d", "e", "f", "g", "h">>

\* a declared parameter
Param(name, annotation, default) ==
    [arg |-> name, annotation |-> annotation, default |-> default]

\* the signatures Python accepts with n parameters: the first p1 are
\* positional-only, those up to p2 positional, the rest keyword-only; a
\* positional parameter without default never follows one with a default; the
\* first positional parameter may be the receiver self (rcv), which has neither
\* annotation nor default; at most one parameter (at) is annotated; the
\* defaults of one signature are the same literal (dflt)
SignatureChoices(n) ==
    { c \in [p1 : 0..n, p2 : 0..n, rcv : BOOLEAN, hasdef : [1..n -> BOOLEAN],
             dflt : {Default_None, Default_1}, at : 0..n,
             ann : Annotations \ {PyNone}] :
        /\ c.p1 <= c.p2
        /\ \A i \in 1..c.p2 : \A j \in 1..c.p2 :
              (i < j /\ c.hasdef[i]) => c.hasdef[j]
        /\ c.rcv => (c.p2 >= 1 /\ ~c.hasdef[1] /\ c.at # 1) }

SignatureParams(n, c) ==
    [i \in 1..n |->
        Param(IF i = 1 /\ c.rcv THEN S_self ELSE <<ParamNames[i]>>,
              IF i = c.at THEN c.ann ELSE PyNone,
              IF c.hasdef[i] THEN c.dflt ELSE PyNone)]

Signatures ==
    UNION { { [posonly    |-> SubSeq(SignatureParams(n, c), 1, c.p1),
               positional |-> SubSeq(SignatureParams(n, c), c.p1 + 1, c.p2),
               kwonly     |-> SubSeq(SignatureParams(n, c), c.p2 + 1, n)] :
              c \in SignatureChoices(n) } :
            n \in 0..MaxParams }

S_run == <<"r", "u", "n">>
S__run == <<"_", "r", "u", "n">>
S_test_run == <<"t", "e", "s", "t", "_", "r", "u", "n">>
FunctionNames == {S_run, S__run, S_test_run}

S_go == <<"g", "o">>

\* function bodies: a return only; a raise; a membership test (in, not in);
\* a comparison that is no membership test; a nested function def go() that
\* holds the raise, or the membership test, and a return after it
Bodies ==
    { <<Return(2)>>,
      <<Raise(2)>>,
      <<Compare(<<"In">>, 2), Return(3)>>,
      <<Compare(<<"NotIn">>, 2), Return(3)>>,
      <<Compare(<<"Eq">>, 2), Return(3)>>,
      <<FunctionDef(S_go, NoArguments, <<Raise(3)>>, 2), Return(4)>>,
      <<FunctionDef(S_go, NoArguments, <<Compare(<<"In">>, 3), Return(4)>>, 2),
        Return(5)>> }

FunctionDefs ==
    { FunctionDef(name, arguments(sig.posonly, sig.positional, sig.kwonly), body, 1) :
        name \in FunctionNames, sig \in Signatures, body \in Bodies }

S_m_py == <<"m", ".", "p", "y">>

NoRc == -1

-----------------------------------------------------------------------------
(* SpecRules: one function definition is parsed, then visited *)

InitRules ==
    /\ pc = "parsed"
    /\ node \in FunctionDefs
    /\ violations = <<>>
    /\ fs = <<>>
    /\ argv = <<>>
    /\ idx = 0
    /\ all_violations = <<>>
    /\ stdout = <<>>
    /\ rc = NoRc
    /\ analysed = <<>>
    /\ prev = <<>>
    /\ ValidatedIdle /\ ModelsIdle /\ CountIdle /\ ToolsIdle

\* checker = FailFastChecker(filename); checker.visit(node)
VisitFunction ==
    /\ pc = "parsed"
    /\ violations' = visit(<<>>, S_m_py, node)
    /\ pc' = "visited"
    /\ UNCHANGED <<node, fs, argv, idx, all_violations, stdout, rc, analysed>>
    /\ UNCHANGED others

NextRules == VisitFunction

SpecRules == InitRules /\ [][NextRules]_vars

-----------------------------------------------------------------------------
(* The parsed files handed to the visitor in SpecTree: up to MaxDefs         *)
(* definitions, nested in every way, one per line; the definition on line i  *)
(* is a function, a function with an exempt name, an async function or a     *)
(* class, and a function either breaks both rules or none.                   *)

DefKinds == {"def", "_def", "async", "class"}

\* what stands on a line: the kind of definition and whether its signature
\* breaks the rules
DefLines ==
    { l \in [kind : DefKinds, flagged : BOOLEAN] : l.kind = "class" => ~l.flagged }

RECURSIVE Encloses(_, _, _)
\* line a is line x or the line of a definition around it (0: the module)
Encloses(a, x, parent) ==
    a = x \/ (x # 0 /\ Encloses(a, parent[x], parent))

\* the nestings of k definitions written one per line: parent[i] is the line
\* of the definition directly around line i (0: the module), which is around
\* the line before or that line itself
Nestings(k) ==
    { parent \in [1..k -> 0..(k - 1)] :
        \A i \in 1..k : parent[i] < i /\ Encloses(parent[i], i - 1, parent) }

\* (a: dict, b=1, c=1): two of three defaulted, a dict and no validation
FlaggedArguments ==
    arguments(<<>>,
              <<Param(<<"a">>, Ann_dict, PyNone), Param(<<"b">>, PyNone, Default_1),
                Param(<<"c">>, PyNone, Default_1)>>,
              <<>>)

S_K == <<"K">>

RECURSIVE TreeAt(_, _, _, _), TreesAt(_, _, _, _)
\* the tree of the definition on line i, its body the definitions directly
\* inside it in source order, or pass
TreeAt(i, k, parent, lines) ==
    LET inside == SelectSeq([j \in 1..k |-> j], LAMBDA j : parent[j] = i)
        body == IF inside = <<>> /\ i # 0 THEN <<Pass(i)>>
                ELSE TreesAt(inside, k, parent, lines)
        args == IF lines[i].flagged THEN FlaggedArguments ELSE NoArguments
    IN  IF i = 0 THEN Module(body)
        ELSE IF lines[i].kind = "def" THEN FunctionDef(S_run, args, body, i)
        ELSE IF lines[i].kind = "_def" THEN FunctionDef(S__run, args, body, i)
        ELSE IF lines[i].kind = "async" THEN AsyncFunctionDef(S_run, args, body, i)
        ELSE ClassDef(S_K, body, i)

\* the trees of the definitions on the lines given, in order
TreesAt(at, k, parent, lines) ==
    IF at = <<>> THEN <<>>
    ELSE <<TreeAt(Head(at), k, parent, lines)>> \o TreesAt(Tail(at), k, parent, lines)

InitTree ==
    /\ pc = "parsed"
    /\ \E k \in 1..MaxDefs :
          \E parent \in Nestings(k), lines \in [1..k -> DefLines] :
              node = TreeAt(0, k, parent, lines)
    /\ violations = <<>>
    /\ fs = <<>>
    /\ argv = <<>>
    /\ idx = 0
    /\ all_violations = <<>>
    /\ stdout = <<>>
    /\ rc = NoRc
    /\ analysed = <<>>
    /\ prev = <<>>
    /\ ValidatedIdle /\ ModelsIdle /\ CountIdle /\ ToolsIdle

SpecTree == InitTree /\ [][NextRules]_vars

-----------------------------------------------------------------------------
(* The file system: paths, directory listing, file contents *)

\* a path is the sequence of its components
N_a_py == <<"a", ".", "p", "y">>
N_b_py == <<"b", ".", "p", "y">>
N_test_b_py == <<"t", "e", "s", "t", "_", "b", ".", "p", "y">>
N_test_c_py == <<"t", "e", "s", "t", "_", "c", ".", "p", "y">>
N_n_txt == <<"n", ".", "t", "x", "t">>
N_r_md == <<"r", ".", "m", "d">>
N_latest_py == <<"l", "a", "t", "e", "s", "t", ".", "p", "y">>
N_d == <<"d">>
N_x == <<"x">>

P_a == <<N_a_py>>
P_test_b == <<N_test_b_py>>
P_n_txt == <<N_n_txt>>
P_d == <<N_d>>
P_x == <<N_x>>
P_d_a == <<N_d, N_a_py>>
P_d_b == <<N_d, N_b_py>>
P_d_test_c == <<N_d, N_test_c_py>>
P_d_r == <<N_d, N_r_md>>
P_d_latest == <<N_d, N_latest_py>>

\* str(path)
RECURSIVE path_str(_)
path_str(path) ==
    IF Len(path) = 0 THEN <<>>
    ELSE IF Len(path) = 1 THEN path[1]
    ELSE path[1] \o <<"/">> \o path_str(Tail(path))

\* path.name
path_name(path) == path[Len(path)]

\* path.suffix: the name from its last dot on, empty when the name has no dot
\* after its first character or ends with a dot
path_suffix(path) ==
    LET nm == path_name(path)
        dots == {i \in 2..Len(nm) : nm[i] = "."}
    IN  IF dots = {} THEN <<>>
        ELSE LET last == CHOOSE i \in dots : \A j \in dots : j <= i
             IN  IF last = Len(nm) THEN <<>> ELSE SubSeq(nm, last, Len(nm))

\* the directories on disk, and the files below a directory in listing order
Dirs == {P_d}
Listing(path) ==
    IF path = P_d THEN <<P_d_a, P_d_test_c, P_d_r, P_d_latest, P_d_b>> ELSE <<>>

\* the files on disk
FilePaths == {P_a, P_test_b, P_n_txt, P_d_a, P_d_b, P_d_test_c, P_d_r, P_d_latest}

\* the paths given on the command line: files, a directory, a missing path
ArgPaths == {P_a, P_test_b, P_n_txt, P_d, P_x}

\* a source file, as read_text and the parser see it: its bytes decode in the
\* default encoding or read_text raises UnicodeDecodeError; its text parses
\* to a tree or the parser raises SyntaxError with a message
Source(ok, tree, msg) ==
    [syntax_ok |-> ok, tree |-> tree, msg |-> msg, decodes |-> TRUE]

PlainParam(name) == Param(name, PyNone, PyNone)

\* def f(:
Src_broken == Source(FALSE, Module(<<>>), <<"invalid syntax">>)
\* def run(a): return
Src_clean ==
    Source(TRUE,
           Module(<<FunctionDef(S_run, arguments(<<>>, <<PlainParam(<<"a">>)>>, <<>>),
                                <<Return(1)>>, 1)>>),
           <<>>)
\* def run(a: dict): return
Src_one ==
    Source(TRUE,
           Module(<<FunctionDef(S_run,
                                arguments(<<>>, <<Param(<<"a">>, Ann_dict, PyNone)>>, <<>>),
                                <<Return(1)>>, 1)>>),
           <<>>)
\* def run(a: dict): return
\* def go(a, b=1, c=1): return
Src_two ==
    Source(TRUE,
           Module(<<FunctionDef(S_run,
                                arguments(<<>>, <<Param(<<"a">>, Ann_dict, PyNone)>>, <<>>),
                                <<Return(1)>>, 1),
                    FunctionDef(S_go,
                                arguments(<<>>,
                                          <<PlainParam(<<"a">>),
                                            Param(<<"b">>, PyNone, Default_1),
                                            Param(<<"c">>, PyNone, Default_1)>>,
                                          <<>>),
                                <<Return(2)>>, 2)>>),
           <<>>)

Sources == {Src_broken, Src_clean, Src_one, Src_two}

\* # -*- coding: latin-1 -*-
\* def run(a: dict): return "caf<E9>"
\* a well-formed source whose bytes are not UTF-8
Src_latin1 == [Src_one EXCEPT !.decodes = FALSE]

\* the disks of the model: three files hold any of the sources, the others a
\* source with one finding
FileSystems ==
    { [f \in FilePaths |->
          IF f = P_a THEN c[1] ELSE IF f = P_d_a THEN c[2]
          ELSE IF f = P_d_b THEN c[3] ELSE Src_one] :
      c \in Sources \X (Sources \cup {Src_latin1}) \X Sources }

exists(path) == path \in FilePaths \/ path \in Dirs
is_file(path) == path \in FilePaths
is_dir(path) == path \in Dirs

\* path.rglob("*.py"): the files below path whose name ends with .py
rglob_py(path) ==
    SelectSeq(Listing(path), LAMBDA f : endswith(path_name(f), S_py))

-----------------------------------------------------------------------------
(* check_file, check_path *)

\* f"{filepath}: [X] Syntax error: {e}"
SyntaxErrorMessage(filepath, msg) ==
    path_str(filepath) \o <<":", " ">> \o ParseTag \o <<" Syntax error: ">> \o msg

\* check_file on a disk: one diagnostic when the parser raises SyntaxError,
\* else the violations of a fresh FailFastChecker after visiting the tree
check_file(disk, filepath) ==
    IF ~disk[filepath].syntax_ok
    THEN <<SyntaxErrorMessage(filepath, disk[filepath].msg)>>
    ELSE visit(<<>>, path_str(filepath), disk[filepath].tree)

\* line 149: filepath.read_text() raises UnicodeDecodeError, which the
\* except clause of line 155 does not catch
check_file_raises(disk, filepath) == ~disk[filepath].decodes

\* the test of line 169: the file is skipped
is_skipped(pyfile) ==
    Contains(path_name(pyfile), S_test) \/ Contains(path_name(pyfile), S_conftest)

\* mutant: the test of line 169 is made for a file given directly, too
files_to_check_skip_always(path) ==
    IF is_file(path)
    THEN IF path_suffix(path) = S_py /\ ~is_skipped(path) THEN <<path>> ELSE <<>>
    ELSE IF is_dir(path)
         THEN SelectSeq(rglob_py(path), LAMBDA f : ~is_skipped(f))
         ELSE <<>>

\* the files check_path hands to check_file, in order
files_to_check(path) ==
    IF is_file(path)
    THEN IF path_suffix(path) = S_py THEN <<path>> ELSE <<>>
    ELSE IF is_dir(path)
         THEN SelectSeq(rglob_py(path), LAMBDA f : ~is_skipped(f))
         ELSE <<>>

RECURSIVE extend_all_stop_at_broken(_, _, _, _)
\* mutant: the loop over the files ends at the first file that fails to parse
extend_all_stop_at_broken(v, disk, files, i) ==
    IF i > Len(files) THEN v
    ELSE IF ~disk[files[i]].syntax_ok THEN v \o check_file(disk, files[i])
    ELSE extend_all_stop_at_broken(v \o check_file(disk, files[i]), disk, files, i + 1)

RECURSIVE extend_all_shared_checker(_, _, _, _)
\* mutant: one checker serves all files, so what a file yields holds the
\* violations of the files before it again
extend_all_shared_checker(v, disk, files, i) ==
    IF i > Len(files) THEN v
    ELSE extend_all_shared_checker(v \o v \o check_file(disk, files[i]), disk, files, i + 1)

RECURSIVE extend_all(_, _, _, _)
\* violations.extend(check_file(f)) for the files from the i-th on
extend_all(v, disk, files, i) ==
    IF i > Len(files) THEN v
    ELSE extend_all(v \o check_file(disk, files[i]), disk, files, i + 1)

\* check_path: the violations of a file or of the files of a directory
check_path(disk, path) == extend_all(<<>>, disk, files_to_check(path), 1)

\* check_path passes on what check_file raises
check_path_raises(disk, path) ==
    \E i \in 1..Len(files_to_check(path)) :
        check_file_raises(disk, files_to_check(path)[i])

\* the files handed to check_file up to the one at which it raises
files_until_raise(disk, path) ==
    LET files == files_to_check(path)
        first == CHOOSE i \in 1..Len(files) :
                    /\ check_file_raises(disk, files[i])
                    /\ \A j \in 1..(i - 1) : ~check_file_raises(disk, files[j])
    IN  SubSeq(files, 1, first)

-----------------------------------------------------------------------------
(* main *)

UsageLines ==
    << <<"Usage: python check_fail_fast.py <path> [path2] ...">>,
       <<"       python check_fail_fast.py src/">> >>
NotFoundLine(path) == <<"[X] Path not found: ">> \o path_str(path)
HeaderLine == <<"Fail-fast pattern violations found:">>
BlankLine == <<>>
ViolationLine(v) == <<" ", " ">> \o v
TotalLine(n) == <<"Total: ">> \o str(n) \o <<" violation(s)">>
OkLine == <<"[OK] No fail-fast violations found">>

ArgvSeqs == UNION {[1..k -> ArgPaths] : k \in 0..MaxArgv}

Init ==
    /\ pc = "main"
    /\ fs \in FileSystems
    /\ argv \in ArgvSeqs
    /\ idx = 0
    /\ all_violations = <<>>
    /\ stdout = <<>>
    /\ rc = NoRc
    /\ analysed = <<>>
    /\ node = PyNone
    /\ violations = <<>>
    /\ prev = <<>>
    /\ ValidatedIdle /\ ModelsIdle /\ CountIdle /\ ToolsIdle

\* lines 178-181: no argument, the usage is printed and main returns 1
main_usage ==
    /\ pc = "main"
    /\ Len(argv) + 1 < 2
    /\ stdout' = stdout \o UsageLines
    /\ rc' = 1
    /\ pc' = "done"
    /\ UNCHANGED <<node, violations, fs, argv, idx, all_violations, analysed>>
    /\ UNCHANGED others

\* mutant: all_violations is not created anew, the list of the run before
\* is extended
main_begin_keep_list ==
    /\ pc = "main"
    /\ ~(Len(argv) + 1 < 2)
    /\ all_violations' = all_violations
    /\ idx' = 1
    /\ pc' = "loop"
    /\ UNCHANGED <<node, violations, fs, argv, stdout, rc, analysed>>
    /\ UNCHANGED others

\* line 183: all_violations is created and the loop over the arguments begins
main_begin ==
    /\ pc = "main"
    /\ ~(Len(argv) + 1 < 2)
    /\ all_violations' = <<>>
    /\ idx' = 1
    /\ pc' = "loop"
    /\ UNCHANGED <<node, violations, fs, argv, stdout, rc, analysed>>
    /\ UNCHANGED others

\* mutant: the missing argument is reported and the loop goes on
main_path_not_found_continue ==
    /\ pc = "loop"
    /\ idx <= Len(argv)
    /\ ~exists(argv[idx])
    /\ stdout' = Append(stdout, NotFoundLine(argv[idx]))
    /\ idx' = idx + 1
    /\ UNCHANGED <<pc, node, violations, fs, argv, all_violations, rc, analysed>>
    /\ UNCHANGED others

\* lines 187-189: the argument does not exist, main reports it and returns 1
main_path_not_found ==
    /\ pc = "loop"
    /\ idx <= Len(argv)
    /\ ~exists(argv[idx])
    /\ stdout' = Append(stdout, NotFoundLine(argv[idx]))
    /\ rc' = 1
    /\ pc' = "done"
    /\ UNCHANGED <<node, violations, fs, argv, idx, all_violations, analysed>>
    /\ UNCHANGED others

\* line 190: all_violations.extend(check_path(path))
main_check_path ==
    /\ pc = "loop"
    /\ idx <= Len(argv)
    /\ exists(argv[idx])
    /\ ~check_path_raises(fs, argv[idx])
    /\ all_violations' = all_violations \o check_path(fs, argv[idx])
    /\ analysed' = analysed \o files_to_check(argv[idx])
    /\ idx' = idx + 1
    /\ UNCHANGED <<pc, node, violations, fs, argv, stdout, rc>>
    /\ UNCHANGED others

\* mutant: the violations are printed and main returns 0
main_report_violations_rc0 ==
    /\ pc = "loop"
    /\ idx > Len(argv)
    /\ all_violations # <<>>
    /\ stdout' = stdout \o <<HeaderLine, BlankLine>>
                    \o [i \in 1..Len(all_violations) |-> ViolationLine(all_violations[i])]
                    \o <<BlankLine, TotalLine(Len(all_violations))>>
    /\ rc' = 0
    /\ pc' = "done"
    /\ UNCHANGED <<node, violations, fs, argv, idx, all_violations, analysed>>
    /\ UNCHANGED others

\* lines 192-197: the violations are printed and main returns 1
main_report_violations ==
    /\ pc = "loop"
    /\ idx > Len(argv)
    /\ all_violations # <<>>
    /\ stdout' = stdout \o <<HeaderLine, BlankLine>>
                    \o [i \in 1..Len(all_violations) |-> ViolationLine(all_violations[i])]
                    \o <<BlankLine, TotalLine(Len(all_violations))>>
    /\ rc' = 1
    /\ pc' = "done"
    /\ UNCHANGED <<node, violations, fs, argv, idx, all_violations, analysed>>
    /\ UNCHANGED others

\* lines 198-200: nothing was found, main returns 0
main_report_ok ==
    /\ pc = "loop"
    /\ idx > Len(argv)
    /\ all_violations = <<>>
    /\ stdout' = Append(stdout, OkLine)
    /\ rc' = 0
    /\ pc' = "done"
    /\ UNCHANGED <<node, violations, fs, argv, idx, all_violations, analysed>>
    /\ UNCHANGED others

\* mutant: what check_path raises is caught, the files up to the failing one
\* count as analysed and the loop goes on with the next argument
main_raise_caught ==
    /\ pc = "loop"
    /\ idx <= Len(argv)
    /\ exists(argv[idx])
    /\ check_path_raises(fs, argv[idx])
    /\ analysed' = analysed \o files_until_raise(fs, argv[idx])
    /\ idx' = idx + 1
    /\ UNCHANGED <<pc, node, violations, fs, argv, all_violations, stdout, rc>>
    /\ UNCHANGED others

\* line 190: check_path raises; main has no handler, the exception leaves
\* main, nothing more is printed and no value is returned
main_raise ==
    /\ pc = "loop"
    /\ idx <= Len(argv)
    /\ exists(argv[idx])
    /\ check_path_raises(fs, argv[idx])
    /\ analysed' = analysed \o files_until_raise(fs, argv[idx])
    /\ pc' = "raised"
    /\ UNCHANGED <<node, violations, fs, argv, idx, all_violations, stdout, rc>>
    /\ UNCHANGED others

\* what a finished run of main showed: the printed lines, the violations in
\* their order, the return value
RunResult == [stdout |-> stdout, violations |-> all_violations, rc |-> rc]

\* lines 203-204: main is called again on the same files with the same
\* arguments; nothing of the run before is cleared except what main itself
\* sets up anew
main_again ==
    /\ pc = "done"
    /\ Len(prev) + 1 < MaxRuns
    /\ prev' = Append(prev, RunResult)
    /\ pc' = "main"
    /\ stdout' = <<>>
    /\ rc' = NoRc
    /\ idx' = 0
    /\ analysed' = <<>>
    /\ UNCHANGED <<node, violations, fs, argv, all_violations>>
    /\ UNCHANGED foreign

Next ==
    \/ main_again
    \/ main_usage
    \/ main_begin
    \/ main_path_not_found
    \/ main_check_path
    \/ main_raise
    \/ main_report_violations
    \/ main_report_ok

Spec == Init /\ [][Next]_vars

-----------------------------------------------------------------------------
(* Vocabulary of the properties of the two rules *)

\* the declared parameters of a definition, in source order
AllParams(n) == n.args.posonlyargs \o n.args.args \o n.args.kwonlyargs

\* the first declared parameter is the receiver self
HasLeadingSelf(n) == Len(AllParams(n)) > 0 /\ AllParams(n)[1].arg = S_self

\* positional-only + positional + keyword-only parameters, less a leading self
EffectiveCount(n) ==
    IF HasLeadingSelf(n) THEN Len(AllParams(n)) - 1 ELSE Len(AllParams(n))

\* the default of the i-th declared parameter, PyNone when it has none: the
\* positional defaults belong to the last positional parameters
DefaultOf(n, i) ==
    LET npos == Len(n.args.posonlyargs) + Len(n.args.args)
        first == npos - Len(n.args.defaults)
    IN  IF i <= npos
        THEN IF i > first THEN n.args.defaults[i - first] ELSE PyNone
        ELSE n.args.kw_defaults[i - npos]

\* how many declared parameters carry a default
DefaultedCount(n) ==
    Cardinality({i \in 1..Len(AllParams(n)) : DefaultOf(n, i) # PyNone})

\* the type expression admits None: X | None or Optional[X]
AllowsNone(e) ==
    \/ e.type = "BinOp" /\ \E k \in 1..Len(e.kids) : e.kids[k] = Constant(S_None)
    \/ e.type = "Subscript" /\ e.kids[1] = Name(S_Optional)

\* the type expression names a dict
NamesDict(e) ==
    \/ e = Name(S_dict)
    \/ e.type = "Subscript" /\ e.kids[1] = Name(S_dict)

\* the index of the one effective parameter of a definition that has just one
SingleParamIndex(n) == Len(AllParams(n))

\* the recognized idiom: one effective parameter, typed to allow None, with
\* the default None
IsOptionalIdiom(n) ==
    /\ EffectiveCount(n) = 1
    /\ AllParams(n)[SingleParamIndex(n)].annotation # PyNone
    /\ AllowsNone(AllParams(n)[SingleParamIndex(n)].annotation)
    /\ DefaultOf(n, SingleParamIndex(n)) = Default_None

\* some declared parameter, of any kind, is typed as a dict
HasDictTypedParam(n) ==
    \E i \in 1..Len(AllParams(n)) :
        /\ AllParams(n)[i].annotation # PyNone
        /\ NamesDict(AllParams(n)[i].annotation)

\* the nodes of the body of a definition
BodyNodes(n) == UNION {walk(n.body[i]) : i \in 1..Len(n.body)}

BodyHasRaise(n) == \E c \in BodyNodes(n) : c.type = "Raise"

BodyHasMembershipTest(n) ==
    \E c \in BodyNodes(n) :
        c.type = "Compare" /\ \E k \in 1..Len(c.ops) : c.ops[k] \in {"In", "NotIn"}

\* the name starts with "_" or with "test"
HasTestPrefix(n) == Len(n.name) >= 4 /\ SubSeq(n.name, 1, 4) = S_test
HasExemptName(n) ==
    \/ Len(n.name) >= 1 /\ n.name[1] = "_"
    \/ HasTestPrefix(n)

\* how many of the violations vs are Rule 1's, Rule 2's
Rule1Count(vs) ==
    Cardinality({i \in 1..Len(vs) : vs[i][Len(vs[i])] = Rule1Text})
Rule2Count(vs) ==
    Cardinality({i \in 1..Len(vs) : vs[i][Len(vs[i])] = Rule2Text})

Visited == pc = "visited"

-----------------------------------------------------------------------------
(* Properties of Rule 1 (SpecRules) *)

C2_Rule1FiresOnceAboveHalf ==
    (/\ Visited
     /\ ~HasExemptName(node)
     /\ EffectiveCount(node) > 0
     /\ 2 * DefaultedCount(node) > EffectiveCount(node)
     /\ ~IsOptionalIdiom(node)) => Rule1Count(violations) = 1

\* C3, as stated: the idiom (one effective parameter, typed to allow None,
\* default None) is never flagged, positional or keyword-only; a method whose
\* one parameter is defaulted outside the idiom is flagged.  Violated by
\* def run(self, *, b: int | None = None).
C3_IdiomExemptionExact ==
    (Visited /\ ~HasExemptName(node) /\ EffectiveCount(node) = 1) =>
        /\ IsOptionalIdiom(node) => Rule1Count(violations) = 0
        /\ (/\ HasLeadingSelf(node)
            /\ DefaultedCount(node) = 1
            /\ ~IsOptionalIdiom(node)) => Rule1Count(violations) = 1

-----------------------------------------------------------------------------
(* Properties of Rule 2 and of the name exemption (SpecRules) *)

\* C4, as stated: a non-exempt function with a dict-typed parameter of any
\* kind and neither raise nor membership test in its body gets exactly one
\* Rule 2 violation.  Violated by def run(*, a: dict): return.
C4_Rule2FiresOnceWithoutValidation ==
    (/\ Visited
     /\ ~HasExemptName(node)
     /\ HasDictTypedParam(node)
     /\ ~BodyHasRaise(node)
     /\ ~BodyHasMembershipTest(node)) => Rule2Count(violations) = 1

\* C5: a function with a dict-typed parameter whose body holds a raise or a
\* membership test (in, not in) gets no Rule 2 violation.
C5_NoRule2WithValidation ==
    (/\ Visited
     /\ HasDictTypedParam(node)
     /\ (BodyHasRaise(node) \/ BodyHasMembershipTest(node)))
        => Rule2Count(violations) = 0

\* C5 witness: a public function with a positional dict parameter and a
\* membership test but no raise was visited and got no Rule 2 violation
C5_Witness ==
    /\ Visited
    /\ ~HasExemptName(node)
    /\ \E i \in 1..Len(node.args.args) : node.args.args[i].annotation = Ann_dict
    /\ BodyHasMembershipTest(node)
    /\ ~BodyHasRaise(node)
    /\ Rule2Count(violations) = 0

\* C6: a function whose name starts with "_" or with "test" never gets a
\* Rule 1 or Rule 2 violation.
C6_ExemptNamesNeverFlagged ==
    (Visited /\ HasExemptName(node)) =>
        (Rule1Count(violations) = 0 /\ Rule2Count(violations) = 0)

\* C6 witness: a test-prefixed function with all parameters defaulted, a
\* positional dict parameter and no validation was visited without a finding
C6_Witness ==
    /\ Visited
    /\ HasTestPrefix(node)
    /\ Len(AllParams(node)) >= 2
    /\ DefaultedCount(node) = Len(AllParams(node))
    /\ \E i \in 1..Len(node.args.args) : node.args.args[i].annotation = Ann_dict
    /\ ~BodyHasRaise(node)
    /\ ~BodyHasMembershipTest(node)
    /\ violations = <<>>

-----------------------------------------------------------------------------
(* Vocabulary of the properties of check_path and main *)

\* the arguments main has gone through
Processed == IF idx = 0 THEN 0 ELSE idx - 1

\* the path is on disk
OnDisk(path) == path \in FilePaths \/ path \in Dirs
AllGivenExist == \A i \in 1..Len(argv) : OnDisk(argv[i])

\* file f is path p or lies below it
Under(f, p) == Len(f) >= Len(p) /\ SubSeq(f, 1, Len(p)) = p

\* a file named as a test or as test configuration: test_*.py, *_test.py,
\* conftest.py
IsTestFile(f) ==
    \/ Len(path_name(f)) >= 5 /\ SubSeq(path_name(f), 1, 5) = S_test \o <<"_">>
    \/ /\ Len(path_name(f)) >= 8
       /\ SubSeq(path_name(f), Len(path_name(f)) - 7, Len(path_name(f)))
            = <<"_">> \o S_test \o S_py
    \/ path_name(f) = S_conftest \o S_py

\* the Python files below directory p
PyFilesBelow(p) ==
    { f \in FilePaths :
        /\ Under(f, p)
        /\ f # p
        /\ Len(path_name(f)) >= 3
        /\ SubSeq(path_name(f), Len(path_name(f)) - 2, Len(path_name(f))) = S_py }

\* the name holds the letters "test" somewhere
NameHoldsTest(f) ==
    \E i \in 1..(Len(path_name(f)) - 3) : SubSeq(path_name(f), i, i + 3) = S_test

\* the files the walk of directory p discovers and keeps: the Python files
\* below p whose name does not hold "test"
DiscoveredSources(p) == { f \in PyFilesBelow(p) : ~NameHoldsTest(f) }

\* how often x occurs in the sequence q
CountIn(q, x) == Cardinality({i \in 1..Len(q) : q[i] = x})

\* violation v is about file f: it starts with "<f>:"
IsAbout(v, f) ==
    LET pre == path_str(f) \o <<":">>
    IN  Len(v) >= Len(pre) /\ SubSeq(v, 1, Len(pre)) = pre

\* the text v holds the tag (three pieces) somewhere
HasTag(v, tag) ==
    \E i \in 1..(Len(v) - 2) : SubSeq(v, i, i + 2) = tag

\* the violations of vs about file f, in order
AboutFile(vs, f) == SelectSeq(vs, LAMBDA v : IsAbout(v, f))

\* q repeated k times
RECURSIVE Repeat(_, _)
Repeat(q, k) == IF k = 0 THEN <<>> ELSE q \o Repeat(q, k - 1)

\* the text starts "<path>:<line>: " for a file on disk and a line number
HasPathLineForm(v) ==
    \E f \in FilePaths : \E n \in 1..9 :
        LET pre == path_str(f) \o <<":">> \o <<ToString(n)>> \o <<":", " ">>
        IN  Len(v) > Len(pre) /\ SubSeq(v, 1, Len(pre)) = pre

\* a printed line without its leading blanks
RECURSIVE StripIndent(_)
StripIndent(line) ==
    IF Len(line) > 0 /\ line[1] = " " THEN StripIndent(Tail(line)) ELSE line

\* the printed lines that are not empty
NonBlank(lines) == SelectSeq(lines, LAMBDA l : l # <<>>)

Done == pc = "done"

-----------------------------------------------------------------------------
(* Properties of check_path and main (Spec) *)

\* C7: in directory mode a discovered file that fails to parse contributes
\* exactly one violation each time the directory is analysed, tagged [X] and
\* not [!], and every other discovered file of the directory is analysed and
\* contributes the violations it yields when checked alone.
C7_ParseFailureOneDiagnostic ==
    \A i \in 1..Processed :
        argv[i] \in Dirs =>
            \A f \in DiscoveredSources(argv[i]) :
                LET k == CountIn(analysed, f)
                    about == AboutFile(all_violations, f)
                IN  /\ k >= 1
                    /\ IF ~fs[f].syntax_ok
                       THEN /\ Len(about) = k
                            /\ \A j \in 1..Len(about) :
                                  HasTag(about[j], ParseTag) /\ ~HasTag(about[j], RuleTag)
                       ELSE /\ about = Repeat(check_file(fs, f), k)
                            /\ \A j \in 1..Len(about) :
                                  HasTag(about[j], RuleTag) /\ ~HasTag(about[j], ParseTag)

\* C7 witness: the directory was analysed, its first file d/a.py fails to
\* parse and gave one [X] diagnostic, the later file d/b.py gave its two
\* findings after it
C7_Witness ==
    /\ Done
    /\ argv = <<P_d>>
    /\ ~fs[P_d_a].syntax_ok
    /\ fs[P_d_b] = Src_two
    /\ Len(all_violations) = 3
    /\ IsAbout(all_violations[1], P_d_a) /\ HasTag(all_violations[1], ParseTag)
    /\ IsAbout(all_violations[2], P_d_b) /\ HasTag(all_violations[2], RuleTag)
    /\ IsAbout(all_violations[3], P_d_b) /\ HasTag(all_violations[3], RuleTag)
    /\ rc = 1

\* C8, as stated: main returns 0 exactly when every given path exists and no
\* violation was collected, and 1 otherwise.  Violated by a run without
\* arguments, which returns 1.
C8_ExitCodeIff ==
    Done => /\ rc \in {0, 1}
            /\ rc = 0 <=> (AllGivenExist /\ Len(all_violations) = 0)

\* C8, amended: given at least one path, main returns 0 exactly when every
\* given path exists and no violation was collected; it returns 1 otherwise,
\* also when no path is given.
C8_ExitCodeIffWithPaths ==
    Done => /\ rc \in {0, 1}
            /\ rc = 0 <=> (Len(argv) >= 1 /\ AllGivenExist /\ Len(all_violations) = 0)

\* C8 witness: two existing paths were analysed, nothing was found, main
\* returned 0
C8_Witness ==
    /\ Done
    /\ Len(argv) >= 2
    /\ AllGivenExist
    /\ Len(analysed) >= 2
    /\ all_violations = <<>>
    /\ rc = 0

\* C9: when an argument path does not exist, main reports it and returns 1 at
\* once: the loop stops at the first missing path, no file of a later argument
\* is analysed, and nothing but the report is printed.
C9_MissingPathStopsMain ==
    (Done /\ ~AllGivenExist) =>
        LET k == CHOOSE i \in 1..Len(argv) :
                    ~OnDisk(argv[i]) /\ \A j \in 1..(i - 1) : OnDisk(argv[j])
        IN  /\ rc = 1
            /\ idx = k
            /\ stdout = <<NotFoundLine(argv[k])>>
            /\ \A j \in 1..Len(analysed) :
                  \E i \in 1..(k - 1) : Under(analysed[j], argv[i])

\* C9 witness: the first argument gave violations, the second does not exist:
\* main returned 1 and printed the report only
C9_Witness ==
    /\ Done
    /\ Len(argv) >= 2
    /\ OnDisk(argv[1])
    /\ ~OnDisk(argv[2])
    /\ all_violations # <<>>
    /\ Len(stdout) = 1
    /\ rc = 1

\* C10, as stated: on success one confirmation line is printed; when
\* violations were found, a header line, one line per violation of the form
\* path:line: message, and a count line with the number of violation lines.
\* Violated by a file that fails to parse: its line is "path: [X] ...".
C10_OutputFormat ==
    (Done /\ Len(argv) >= 1 /\ AllGivenExist) =>
        IF rc = 0
        THEN stdout = <<OkLine>>
        ELSE LET out == NonBlank(stdout)
             IN  /\ Len(out) >= 3
                 /\ out[1] = HeaderLine
                 /\ out[Len(out)] = TotalLine(Len(out) - 2)
                 /\ Len(out) - 2 = Len(all_violations)
                 /\ \A i \in 2..(Len(out) - 1) : HasPathLineForm(StripIndent(out[i]))

\* C11, as stated: in directory mode a Python file below the root is skipped
\* exactly when it is a test file or conftest; no other source file is
\* skipped.  Violated by d/latest.py, which is no test file and is skipped.
C11_SkippedIffTestFile ==
    \A i \in 1..Processed :
        argv[i] \in Dirs =>
            \A f \in PyFilesBelow(argv[i]) :
                (CountIn(analysed, f) = 0) <=> IsTestFile(f)

\* C12: running the linter again on the same unchanged files prints the same
\* lines, collects the same violations in the same order and returns the same
\* value as every run before.
C12_SecondRunSameResult ==
    Done => \A i \in 1..Len(prev) : prev[i] = RunResult

C12_Witness ==
    /\ Done
    /\ Len(prev) >= 1
    /\ Len(all_violations) >= 2
    /\ rc = 1
    /\ prev[1] = RunResult

\* C13, as stated: no exception leaves the analysis of a well-formed source
\* file; main ends by returning, never by an exception raised while a
\* well-formed file is analysed.  Violated by a well-formed source whose bytes
\* are not UTF-8.
C13_WellFormedNeverRaises ==
    ~( /\ pc = "raised"
       /\ analysed # <<>>
       /\ fs[analysed[Len(analysed)]].syntax_ok )

-----------------------------------------------------------------------------
(* Properties of the traversal (SpecTree) *)

\* the function definitions of a tree, synchronous and async
FunctionsOf(tree) ==
    { d \in walk(tree) : d.type \in {"FunctionDef", "AsyncFunctionDef"} }

\* the two messages a function that breaks both rules is to get
Rule1MessageOf(d) ==
    ExcessiveDefaultsMessage(S_m_py, d, num_defaults(d.args), effective_params(d.args))
Rule2MessageOf(d) == DictWithoutValidationMessage(S_m_py, d)

BreaksRules(d) == d.args = FlaggedArguments

\* C14, as stated: every function definition of the file, synchronous or
\* async, at any depth, is evaluated exactly once: one that breaks both rules
\* and has no exempt name gets each of its two messages once, every other one
\* gets none.  Violated by an async function.
C14_EveryFunctionEvaluatedOnce ==
    Visited =>
        \A d \in FunctionsOf(node) :
            LET expected == IF BreaksRules(d) /\ ~HasExemptName(d) THEN 1 ELSE 0
            IN  /\ CountIn(violations, Rule1MessageOf(d)) = expected
                /\ CountIn(violations, Rule2MessageOf(d)) = expected

\* the line number a violation names: the number between the first two colons
LineOf(v) ==
    LET colon == CHOOSE i \in 1..Len(v) :
                    v[i] = ":" /\ \A j \in 1..(i - 1) : v[j] # ":"
    IN  CHOOSE n \in 0..MaxDefs : str(n) = <<v[colon + 1]>>

\* the places of the violations list that hold a message of definition d
PlacesOf(d) ==
    { i \in 1..Len(violations) :
        violations[i] \in {Rule1MessageOf(d), Rule2MessageOf(d)} }

\* definition inner stands inside the body of definition outer
NestedIn(inner, outer) == inner # outer /\ inner \in walk(outer)

\* C15: within one file the violations come in traversal order: the findings
\* of a function stand before those of every function nested inside it and of
\* every function defined later, so the line numbers never decrease.
C15_ViolationsInSourceOrder ==
    Visited =>
        /\ \A i, j \in 1..Len(violations) :
              i < j => LineOf(violations[i]) <= LineOf(violations[j])
        /\ \A d1, d2 \in FunctionsOf(node) :
              (NestedIn(d2, d1) \/ d1.lineno < d2.lineno) =>
                  \A i \in PlacesOf(d1), j \in PlacesOf(d2) : i < j

C15_Witness ==
    /\ Visited
    /\ \E d1, d2 \in FunctionsOf(node) :
          /\ NestedIn(d2, d1)
          /\ PlacesOf(d1) # {}
          /\ PlacesOf(d2) # {}
    /\ \E d1, d3 \in FunctionsOf(node) :
          /\ ~NestedIn(d3, d1)
          /\ d1.lineno < d3.lineno
          /\ PlacesOf(d1) # {}
          /\ PlacesOf(d3) # {}

-----------------------------------------------------------------------------
(* src/core/base/validated.py: ValidatedProcessor.run and                    *)
(* ValidatedTransformer.__call__ on an object of a concrete subclass.  The   *)
(* subclass is given by the inputs its validate rejects; its process or      *)
(* transform doubles the input, as DoubleProcessor of the unit tests does.   *)

\* the linter does not run
LinterIdle ==
    /\ node = PyNone
    /\ violations = <<>>
    /\ fs = <<>>
    /\ argv = <<>>
    /\ idx = 0
    /\ all_violations = <<>>
    /\ stdout = <<>>
    /\ rc = NoRc
    /\ analysed = <<>>
    /\ prev = <<>>

Values == (0 - MaxValue)..MaxValue

\* an object of a subclass of ValidatedProcessor or ValidatedTransformer whose
\* validate raises for the inputs in invalid
Objects ==
    [class : {"ValidatedProcessor", "ValidatedTransformer"}, invalid : SUBSET Values]

\* validate(inputs) of the subclass raises
validate_raises(o, x) == x \in o.invalid

\* process(inputs), transform(data) of the subclass
process(o, x) == 2 * x
transform(o, x) == 2 * x

Call(method, arg) == [method |-> method, arg |-> arg]

\* how often run or __call__ was entered
NumCalls ==
    Cardinality({i \in 1..Len(calls) : calls[i].method \in {"run", "__call__"}})

InitValidated ==
    /\ pc = "idle"
    /\ obj \in Objects
    /\ inputs = <<>>
    /\ calls = <<>>
    /\ output = <<>>
    /\ exc = <<>>
    /\ LinterIdle /\ ModelsIdle /\ CountIdle /\ ToolsIdle

\* line 47: a caller calls processor.run(inputs)
run_enter ==
    /\ pc \in {"idle", "returned", "raised"}
    /\ obj.class = "ValidatedProcessor"
    /\ NumCalls < MaxCalls
    /\ \E x \in Values :
          /\ inputs' = <<x>>
          /\ calls' = Append(calls, Call("run", x))
    /\ output' = <<>>
    /\ exc' = <<>>
    /\ pc' = "run_63"
    /\ UNCHANGED <<obj, linter_vars, models_vars, count_vars, tools_vars>>

\* mutant: what validate raises is swallowed and run goes on
run_validate_swallow ==
    /\ pc = "run_63"
    /\ calls' = Append(calls, Call("validate", inputs[1]))
    /\ pc' = "run_64"
    /\ UNCHANGED <<obj, inputs, output, exc, linter_vars, models_vars, count_vars, tools_vars>>

\* line 63: self.validate(inputs); what it raises leaves run
run_validate ==
    /\ pc = "run_63"
    /\ calls' = Append(calls, Call("validate", inputs[1]))
    /\ IF validate_raises(obj, inputs[1])
       THEN exc' = <<"ValueError">> /\ pc' = "raised"
       ELSE exc' = exc /\ pc' = "run_64"
    /\ UNCHANGED <<obj, inputs, output, linter_vars, models_vars, count_vars, tools_vars>>

\* line 64: return self.process(inputs)
run_process ==
    /\ pc = "run_64"
    /\ calls' = Append(calls, Call("process", inputs[1]))
    /\ output' = <<process(obj, inputs[1])>>
    /\ pc' = "returned"
    /\ UNCHANGED <<obj, inputs, exc, linter_vars, models_vars, count_vars, tools_vars>>

\* line 113: a caller calls transformer(data)
call_enter ==
    /\ pc \in {"idle", "returned", "raised"}
    /\ obj.class = "ValidatedTransformer"
    /\ NumCalls < MaxCalls
    /\ \E x \in Values :
          /\ inputs' = <<x>>
          /\ calls' = Append(calls, Call("__call__", x))
    /\ output' = <<>>
    /\ exc' = <<>>
    /\ pc' = "call_115"
    /\ UNCHANGED <<obj, linter_vars, models_vars, count_vars, tools_vars>>

\* line 115: self.validate(data); what it raises leaves __call__
call_validate ==
    /\ pc = "call_115"
    /\ calls' = Append(calls, Call("validate", inputs[1]))
    /\ IF validate_raises(obj, inputs[1])
       THEN exc' = <<"ValueError">> /\ pc' = "raised"
       ELSE exc' = exc /\ pc' = "call_116"
    /\ UNCHANGED <<obj, inputs, output, linter_vars, models_vars, count_vars, tools_vars>>

\* line 116: return self.transform(data)
call_transform ==
    /\ pc = "call_116"
    /\ calls' = Append(calls, Call("transform", inputs[1]))
    /\ output' = <<transform(obj, inputs[1])>>
    /\ pc' = "returned"
    /\ UNCHANGED <<obj, inputs, exc, linter_vars, models_vars, count_vars, tools_vars>>

NextValidated ==
    \/ run_enter
    \/ run_validate
    \/ run_process
    \/ call_enter
    \/ call_validate
    \/ call_transform

SpecValidated == InitValidated /\ [][NextValidated]_vars

-----------------------------------------------------------------------------
(* Properties of ValidatedProcessor and ValidatedTransformer (SpecValidated) *)

IsEntry(c) == c.method \in {"run", "__call__"}
IsWork(c) == c.method \in {"process", "transform"}

\* C16: in run and in __call__ validate is called first, with the argument of
\* the call; process or transform is called only directly after a validate of
\* the same argument that returned; when validate raises, the call ends with
\* that exception, nothing else is called and there is no output.
C16_ValidateBeforeProcess ==
    /\ \A i \in 1..Len(calls) :
          IsWork(calls[i]) =>
              /\ i > 1
              /\ calls[i - 1] = Call("validate", calls[i].arg)
              /\ ~validate_raises(obj, calls[i].arg)
    /\ \A i \in 1..(Len(calls) - 1) :
          /\ IsEntry(calls[i]) => calls[i + 1] = Call("validate", calls[i].arg)
          /\ (calls[i].method = "validate" /\ validate_raises(obj, calls[i].arg))
                => IsEntry(calls[i + 1])
    /\ pc = "raised" =>
          /\ calls[Len(calls)] = Call("validate", inputs[1])
          /\ validate_raises(obj, inputs[1])
          /\ exc = <<"ValueError">>
          /\ output = <<>>
    /\ pc = "returned" =>
          /\ IsWork(calls[Len(calls)])
          /\ exc = <<>>

C16_Witness ==
    /\ pc = "raised"
    /\ \E i \in 1..Len(calls) : IsWork(calls[i])
    /\ output = <<>>

-----------------------------------------------------------------------------
(* src/models/base.py: StrictModel and MutableStrictModel.  The two classes  *)
(* are a model_config each; what construction and attribute assignment do    *)
(* under a configuration is the behaviour of pydantic's BaseModel (observed  *)
(* with pydantic 2.13), written here as a function of the configuration.     *)

\* lines 42-47
StrictModel_model_config ==
    [strict |-> TRUE, frozen |-> TRUE, extra |-> "forbid", validate_default |-> TRUE]
\* lines 57-62
MutableStrictModel_model_config ==
    [strict |-> TRUE, frozen |-> FALSE, extra |-> "forbid", validate_default |-> TRUE]

model_config(base) ==
    IF base = "StrictModel" THEN StrictModel_model_config
    ELSE MutableStrictModel_model_config

\* Python values: the type and the text repr gives
PyInt(n) == [type |-> "int", repr |-> str(n)]
PyStr(text) == [type |-> "str", repr |-> text]
PyFloat(whole, frac) == [type |-> "float", repr |-> str(whole) \o <<".">> \o str(frac)]
PyBool(b) == [type |-> "bool", repr |-> IF b THEN <<"True">> ELSE <<"False">>]
NoValue == [type |-> "NoneType", repr |-> S_None]

\* float(n) of an int
float_of_int(v) == [type |-> "float", repr |-> v.repr \o <<".", "0">>]

N_age == <<"a", "g", "e">>
N_ratio == <<"r", "a", "t", "i", "o">>
N_zzz == <<"z", "z", "z">>
N__note == <<"_", "n", "o", "t", "e">>

FieldTypes == {"int", "str", "float"}

\* the classes: a base and one or two annotated fields without default
ModelClasses ==
    [base : {"StrictModel", "MutableStrictModel"},
     fields : [{N_age} -> FieldTypes] \cup [{N_age, N_ratio} -> FieldTypes]]

\* the values passed to the constructor
ArgValues == {PyInt(5), PyStr(<<"5">>), PyFloat(5, 5), PyBool(TRUE)}
\* the keyword arguments of a constructor call
KeywordArgs == UNION {[names -> ArgValues] : names \in SUBSET {N_age, N_ratio, N_zzz}}

\* the values and names of an attribute assignment
AssignValues == {PyInt(7), PyStr(<<"7">>)}
AssignNames == {N_age, N_ratio, N_zzz, N__note}

\* validation of value v for a field of type ftype: <<the value stored>>, or
\* <<>> when it is rejected.  In strict mode a value passes with its own type,
\* and an int passes for a float field and is converted; in lax mode a str of
\* digits and a bool pass for an int field as well.
validate_value(strict, ftype, v) ==
    IF v.type = ftype THEN <<v>>
    ELSE IF ftype = "float" /\ v.type = "int" THEN <<float_of_int(v)>>
    ELSE IF ~strict /\ ftype = "int" /\ v.type = "str"
              /\ \E n \in 0..9 : v.repr = str(n)
         THEN <<[type |-> "int", repr |-> v.repr]>>
    ELSE IF ~strict /\ ftype = "int" /\ v.type = "bool"
         THEN <<PyInt(IF v = PyBool(TRUE) THEN 1 ELSE 0)>>
    ELSE <<>>

\* BaseModel.__init__(**kwargs): the errors of a constructor call
init_errors(c, kwargs) ==
    LET config == model_config(c.base)
    IN  { <<f, "missing">> : f \in DOMAIN c.fields \ DOMAIN kwargs }
        \cup { <<f, "extra_forbidden">> :
                 f \in { k \in DOMAIN kwargs \ DOMAIN c.fields : config.extra = "forbid" } }
        \cup { <<f, "type">> :
                 f \in { k \in DOMAIN kwargs \cap DOMAIN c.fields :
                           validate_value(config.strict, c.fields[k], kwargs[k]) = <<>> } }

\* the field values of the instance a constructor call without errors creates
init_fields(c, kwargs) ==
    [f \in DOMAIN c.fields |->
        validate_value(model_config(c.base).strict, c.fields[f], kwargs[f])[1]]

\* BaseModel.__setattr__(name, value): the exception it raises, if any.  A
\* name with a leading underscore is no field and is set on the object; a
\* frozen model raises ValidationError; a name that is no field raises
\* ValueError; a field is set without validation (validate_assignment is off).
setattr_raises(c, name, value) ==
    IF startswith(name, <<"_">>) THEN <<>>
    ELSE IF model_config(c.base).frozen THEN <<"ValidationError">>
    ELSE IF name \notin DOMAIN c.fields THEN <<"ValueError">>
    ELSE <<>>

NumAssign == IF last_op = <<>> THEN 0 ELSE last_op[1].n

InitModels ==
    /\ pc = "class"
    /\ cls \in ModelClasses
    /\ inst = <<>>
    /\ attrs = <<>>
    /\ last_op = <<>>
    /\ LinterIdle /\ ValidatedIdle /\ CountIdle /\ ToolsIdle

\* Model(**kwargs)
Construct ==
    /\ pc = "class"
    /\ \E kwargs \in KeywordArgs :
          LET errors == init_errors(cls, kwargs)
          IN  /\ inst' = IF errors = {} THEN <<init_fields(cls, kwargs)>> ELSE <<>>
              /\ last_op' = <<[op |-> "init", kwargs |-> kwargs, name |-> <<>>,
                              value |-> NoValue, before |-> inst, n |-> 0,
                              exc |-> IF errors = {} THEN <<>>
                                      ELSE <<"ValidationError">>]>>
              /\ pc' = IF errors = {} THEN "instance" ELSE "raised"
    /\ UNCHANGED <<cls, attrs, linter_vars, validated_vars, count_vars, tools_vars>>

\* instance.name = value
SetAttr ==
    /\ pc = "instance"
    /\ NumAssign < MaxAssign
    /\ \E name \in AssignNames, value \in AssignValues :
          LET raised == setattr_raises(cls, name, value)
          IN  /\ inst' = IF raised = <<>> /\ name \in DOMAIN cls.fields
                         THEN <<[inst[1] EXCEPT ![name] = value]>> ELSE inst
              /\ attrs' = IF raised = <<>> /\ name \notin DOMAIN cls.fields
                          THEN Append(attrs, <<name, value>>) ELSE attrs
              /\ last_op' = <<[op |-> "setattr", kwargs |-> <<>>, name |-> name,
                              value |-> value, before |-> inst,
                              n |-> NumAssign + 1, exc |-> raised]>>
    /\ UNCHANGED <<pc, cls, linter_vars, validated_vars, count_vars, tools_vars>>

NextModels == Construct \/ SetAttr

SpecModels == InitModels /\ [][NextModels]_vars

-----------------------------------------------------------------------------
(* Properties of StrictModel and MutableStrictModel (SpecModels) *)

\* the last operation was a constructor call / an attribute assignment
Constructed == last_op # <<>> /\ last_op[1].op = "init"
Assigned == last_op # <<>> /\ last_op[1].op = "setattr"

\* exactly the declared fields are supplied, each with a value of exactly the
\* declared type
ExactlyDeclared(c, kwargs) ==
    /\ DOMAIN kwargs = DOMAIN c.fields
    /\ \A f \in DOMAIN c.fields : kwargs[f].type = c.fields[f]

\* C17, as stated: a constructor call creates an instance only when exactly
\* the declared fields are supplied with values of exactly the declared
\* types; every other call raises ValidationError and creates no instance.
\* Violated by an int passed for a float field.
C17_ConstructOnlyExactTypes ==
    Constructed =>
        IF ExactlyDeclared(cls, last_op[1].kwargs)
        THEN inst # <<>> /\ last_op[1].exc = <<>>
        ELSE inst = <<>> /\ last_op[1].exc = <<"ValidationError">>

\* C18, as stated: on a StrictModel instance every attribute assignment
\* raises ValidationError and leaves the field values unchanged; on a
\* MutableStrictModel instance an assignment to a declared field is accepted.
\* Violated by an assignment to a name with a leading underscore.
C18_FrozenRejectsEveryAssignment ==
    Assigned =>
        /\ cls.base = "StrictModel" =>
              /\ last_op[1].exc = <<"ValidationError">>
              /\ inst = last_op[1].before
        /\ (cls.base = "MutableStrictModel" /\ last_op[1].name \in DOMAIN cls.fields) =>
              /\ last_op[1].exc = <<>>
              /\ inst[1][last_op[1].name] = last_op[1].value

-----------------------------------------------------------------------------
(* scripts/check_test_count.py: the baseline file, read_baseline,            *)
(* write_baseline and main, run again and again while the tests change.      *)
(* The text of the file is a sequence of one-character strings.              *)

\* the baseline file: absent, or its text
NoFile == [exists |-> FALSE, content |-> <<>>]
File(content) == [exists |-> TRUE, content |-> content]

Whitespace == {" ", "\n", "\t"}
Digits == {ToString(n) : n \in 0..9}

RECURSIVE lstrip(_)
lstrip(text) ==
    IF text # <<>> /\ Head(text) \in Whitespace THEN lstrip(Tail(text)) ELSE text
RECURSIVE rstrip(_)
rstrip(text) ==
    IF text # <<>> /\ text[Len(text)] \in Whitespace
    THEN rstrip(SubSeq(text, 1, Len(text) - 1)) ELSE text
\* str.strip
strip(text) == rstrip(lstrip(text))

\* str.isdigit: not empty and digits only
isdigit(text) == text # <<>> /\ \A i \in 1..Len(text) : text[i] \in Digits

digit_value(c) == CHOOSE n \in 0..9 : ToString(n) = c
RECURSIVE int(_)
\* int(text) of a text of digits
int(text) ==
    IF text = <<>> THEN 0
    ELSE 10 * int(SubSeq(text, 1, Len(text) - 1)) + digit_value(text[Len(text)])

\* f"{count}" of a count below ten
format_count(count) == <<ToString(count)>>

\* lines 60-63: read_baseline raises RuntimeError
read_baseline_raises(file) ==
    /\ file.exists
    /\ strip(file.content) # <<>>
    /\ ~isdigit(strip(file.content))

\* mutant: without a baseline file the baseline is 1
read_baseline_missing_is_one(file) ==
    IF ~file.exists THEN 1
    ELSE IF strip(file.content) = <<>> THEN 0
    ELSE int(strip(file.content))

\* lines 53-64: the value read_baseline returns
read_baseline(file) ==
    IF ~file.exists THEN 0
    ELSE IF strip(file.content) = <<>> THEN 0
    ELSE int(strip(file.content))

\* lines 67-70: the file after write_baseline(count)
write_baseline(count) == File(format_count(count) \o <<"\n">>)

\* the file before the first run: absent, empty, blank, a number written by
\* the script, a number with blanks and a leading zero, not a number
InitialFiles ==
    {NoFile, File(<<>>), File(<<"\n">>), File(<<" ", "0", "2", " ", "\n">>),
     File(<<"x", "\n">>), File(<<"-", "1", "\n">>)}
    \cup {write_baseline(n) : n \in 0..MaxCount}

\* what a run of main did
Run(update, count, before, returned, raised) ==
    [update |-> update, count |-> count, before |-> before, rc |-> returned,
     exc |-> raised]

InitCount ==
    /\ pc = "shell"
    /\ baseline_file \in InitialFiles
    /\ current_count \in 0..MaxCount
    /\ last_run = <<>>
    /\ LinterIdle /\ ValidatedIdle /\ ModelsIdle /\ ToolsIdle

\* between two runs tests are added or removed
SetTests ==
    /\ \E n \in 0..MaxCount : n # current_count /\ current_count' = n
    /\ UNCHANGED <<pc, baseline_file, last_run, linter_vars, validated_vars, models_vars, tools_vars>>
\* what main did: what it returned or raised and the file it leaves
Outcome(returned, raised, file) == [rc |-> returned, exc |-> raised, file |-> file]

\* mutant: an equal count is a regression too
main_check_le(count, file) ==
    IF read_baseline_raises(file) THEN Outcome(NoRc, <<"RuntimeError">>, file)
    ELSE IF count <= read_baseline(file) THEN Outcome(1, <<>>, file)
    ELSE IF count > read_baseline(file) THEN Outcome(0, <<>>, write_baseline(count))
    ELSE Outcome(0, <<>>, file)

\* mutant: a greater count is accepted and the baseline left as it is
main_check_no_write(count, file) ==
    IF read_baseline_raises(file) THEN Outcome(NoRc, <<"RuntimeError">>, file)
    ELSE IF count < read_baseline(file) THEN Outcome(1, <<>>, file)
    ELSE Outcome(0, <<>>, file)

\* mutant: the baseline follows the count down as well
main_check_write_always(count, file) ==
    IF read_baseline_raises(file) THEN Outcome(NoRc, <<"RuntimeError">>, file)
    ELSE IF count < read_baseline(file) THEN Outcome(1, <<>>, write_baseline(count))
    ELSE IF count > read_baseline(file) THEN Outcome(0, <<>>, write_baseline(count))
    ELSE Outcome(0, <<>>, file)

\* lines 77-78 and 85-104: main without --update, for the count of
\* count_all_tests and the baseline file found
main_check(count, file) ==
    IF read_baseline_raises(file) THEN Outcome(NoRc, <<"RuntimeError">>, file)
    ELSE IF count < read_baseline(file) THEN Outcome(1, <<>>, file)
    ELSE IF count > read_baseline(file) THEN Outcome(0, <<>>, write_baseline(count))
    ELSE Outcome(0, <<>>, file)

\* lines 77-83: main with --update; the baseline is read before it is written
main_update(count, file) ==
    IF read_baseline_raises(file) THEN Outcome(NoRc, <<"RuntimeError">>, file)
    ELSE Outcome(0, <<>>, write_baseline(count))

\* python scripts/check_test_count.py
CheckRun ==
    /\ pc = "shell"
    /\ baseline_file' = main_check(current_count, baseline_file).file
    /\ last_run' = <<Run(FALSE, current_count, baseline_file,
                         main_check(current_count, baseline_file).rc,
                         main_check(current_count, baseline_file).exc)>>
    /\ UNCHANGED <<pc, current_count, linter_vars, validated_vars, models_vars, tools_vars>>

\* python scripts/check_test_count.py --update
UpdateRun ==
    /\ pc = "shell"
    /\ baseline_file' = main_update(current_count, baseline_file).file
    /\ last_run' = <<Run(TRUE, current_count, baseline_file,
                         main_update(current_count, baseline_file).rc,
                         main_update(current_count, baseline_file).exc)>>
    /\ UNCHANGED <<pc, current_count, linter_vars, validated_vars, models_vars, tools_vars>>

NextCount == SetTests \/ CheckRun \/ UpdateRun

SpecCount == InitCount /\ [][NextCount]_vars

-----------------------------------------------------------------------------
(* Properties of the test count ratchet (SpecCount) *)

\* the last run was one without --update
Checked == last_run # <<>> /\ ~last_run[1].update

\* C19: a run without --update never lowers the stored baseline: it leaves
\* the file as it is, or writes a number above the one stored; so over any
\* sequence of such runs, however the count changes in between, the stored
\* value never decreases.
C19_BaselineNeverDecreases ==
    [][ (last_run' # <<>> /\ ~last_run'[1].update /\ baseline_file' # baseline_file)
            => /\ ~read_baseline_raises(baseline_file)
               /\ ~read_baseline_raises(baseline_file')
               /\ read_baseline(baseline_file') > read_baseline(baseline_file) ]_vars

\* a run without --update found more tests than the number stored and raised
\* the stored number
C19_Witness ==
    /\ Checked
    /\ last_run[1].before.exists
    /\ read_baseline(last_run[1].before) >= 1
    /\ baseline_file # last_run[1].before
    /\ read_baseline(baseline_file) > read_baseline(last_run[1].before)

\* C20: a run without --update that returns, returns 1 exactly when the
\* current count is below the baseline, and then the baseline file is as it
\* was before the run.
C20_ReturnsOneIffRegression ==
    (Checked /\ last_run[1].exc = <<>>) =>
        /\ last_run[1].rc = 1 <=> last_run[1].count < read_baseline(last_run[1].before)
        /\ last_run[1].rc \in {0, 1}
        /\ last_run[1].rc = 1 => baseline_file = last_run[1].before

C20_Witness ==
    /\ Checked
    /\ last_run[1].rc = 1
    /\ last_run[1].count < read_baseline(last_run[1].before)
    /\ baseline_file = last_run[1].before
    /\ baseline_file.exists

\* the last run was one with --update
Updated == last_run # <<>> /\ last_run[1].update

\* C21, as stated: a run with --update writes the current count to the
\* baseline file and returns 0, whatever the file held before.  Violated by a
\* baseline file that holds no number.
C21_UpdateAlwaysWrites ==
    Updated =>
        /\ last_run[1].rc = 0
        /\ last_run[1].exc = <<>>
        /\ baseline_file = write_baseline(last_run[1].count)

-----------------------------------------------------------------------------
(* Properties of a batch of files (Spec) *)

RECURSIVE EachAlone(_)
\* what the files of the sequence yield when each is analysed alone, passed
\* as the only path, one result after the other
EachAlone(files) ==
    IF files = <<>> THEN <<>>
    ELSE check_path(fs, Head(files)) \o EachAlone(Tail(files))

\* main is in its loop or has returned
Collecting == pc \in {"loop", "done"}

\* C22: the violations collected for a batch are the violations each analysed
\* file yields when analysed alone, in the order the files were listed; so a
\* directory whose two analysed files are a well-formed one with one
\* violation and a broken one yields two diagnostics and the return value 1.
C22_BatchIsConcatenation ==
    /\ Collecting => all_violations = EachAlone(analysed)
    /\ (Done /\ argv = <<P_d>> /\ fs[P_d_a] = Src_one /\ fs[P_d_b] = Src_broken) =>
          /\ Len(all_violations) = 2
          /\ rc = 1

C22_Witness ==
    /\ Done
    /\ argv = <<P_d>>
    /\ fs[P_d_a] = Src_one
    /\ fs[P_d_b] = Src_broken
    /\ analysed = <<P_d_a, P_d_b>>
    /\ Len(all_violations) = 2
    /\ HasTag(all_violations[1], RuleTag)
    /\ HasTag(all_violations[2], ParseTag)
    /\ rc = 1

-----------------------------------------------------------------------------
(* Properties of the two rules together (SpecRules) *)

\* C23, as stated: the two rules are evaluated independently, so a non-exempt
\* function that meets the criterion of Rule 1 (more than half of its
\* effective parameters defaulted, the optional idiom apart) and that of Rule
\* 2 (a dict-typed parameter, neither raise nor membership test) gets exactly
\* two violations with the same line number, Rule 1's first.  Violated by
\* def run(a: dict = 1).
C23_BothRulesFire ==
    (/\ Visited
     /\ ~HasExemptName(node)
     /\ EffectiveCount(node) > 0
     /\ 2 * DefaultedCount(node) > EffectiveCount(node)
     /\ ~IsOptionalIdiom(node)
     /\ HasDictTypedParam(node)
     /\ ~BodyHasRaise(node)
     /\ ~BodyHasMembershipTest(node)) =>
        /\ Len(violations) = 2
        /\ violations[1][Len(violations[1])] = Rule1Text
        /\ violations[2][Len(violations[2])] = Rule2Text
        /\ LineOf(violations[1]) = LineOf(violations[2])

\* C24: after a run without --update that returned 0 the effective baseline
\* (the number in the file, 0 when the file is absent or blank) is the
\* current count: the file holds the count newly written when the count was
\* above the baseline, and is as it was when the count was equal.
C24_BaselineIsCountAfterSuccess ==
    (Checked /\ last_run[1].rc = 0) =>
        /\ ~read_baseline_raises(baseline_file)
        /\ read_baseline(baseline_file) = last_run[1].count
        /\ last_run[1].count > read_baseline(last_run[1].before)
              => baseline_file = write_baseline(last_run[1].count)
        /\ last_run[1].count = read_baseline(last_run[1].before)
              => baseline_file = last_run[1].before

C24_Witness ==
    /\ Checked
    /\ last_run[1].rc = 0
    /\ last_run[1].before.exists
    /\ last_run[1].count = MaxCount
    /\ read_baseline(last_run[1].before) = 2
    /\ baseline_file = write_baseline(MaxCount)

\* the file is absent or holds nothing but blanks
AbsentOrEmpty(file) == ~file.exists \/ strip(file.content) = <<>>

\* C28: an absent or empty baseline file counts as baseline 0: a run without
\* --update that finds it so reports no regression and returns 0, writes the
\* current count when that is positive and writes nothing when it is 0.
C28_MissingBaselineIsZero ==
    (Checked /\ AbsentOrEmpty(last_run[1].before)) =>
        /\ last_run[1].rc = 0
        /\ last_run[1].exc = <<>>
        /\ last_run[1].count > 0 => baseline_file = write_baseline(last_run[1].count)
        /\ last_run[1].count = 0 => baseline_file = last_run[1].before

C28_Witness ==
    /\ Checked
    /\ last_run[1].before = NoFile
    /\ last_run[1].count > 0
    /\ last_run[1].rc = 0
    /\ baseline_file = write_baseline(last_run[1].count)

\* how often path p stands among the arguments main has gone through
TimesGiven(p) == Cardinality({i \in 1..Processed : argv[i] = p})

\* C27: the exclusion by name holds for the files found below a directory
\* only: a file given as an argument is analysed each time it is given when
\* its name ends with .py, also when the name holds "test", and is not
\* analysed and adds no violation when it does not end with .py; alone it
\* lets main return 0.
C27_DirectFileNotExcluded ==
    Collecting =>
        /\ CountIn(analysed, P_test_b) = TimesGiven(P_test_b)
        /\ Len(AboutFile(all_violations, P_test_b))
              = TimesGiven(P_test_b) * Len(check_file(fs, P_test_b))
        /\ CountIn(analysed, P_n_txt) = 0
        /\ AboutFile(all_violations, P_n_txt) = <<>>
        /\ CountIn(analysed, P_d_test_c) = 0
        /\ (Done /\ Len(argv) >= 1 /\ \A i \in 1..Len(argv) : argv[i] = P_n_txt)
              => rc = 0 /\ all_violations = <<>>

C27_Witness ==
    /\ Done
    /\ argv = <<P_n_txt, P_test_b>>
    /\ analysed = <<P_test_b>>
    /\ Len(all_violations) = 1
    /\ IsAbout(all_violations[1], P_test_b)
    /\ rc = 1

\* node c is a raise or a membership test
IsValidation(c) ==
    \/ c.type = "Raise"
    \/ c.type = "Compare" /\ \E k \in 1..Len(c.ops) : c.ops[k] \in {"In", "NotIn"}

\* the function holds a raise or membership test, but only inside a function
\* nested in it
ValidationOnlyNested(n) ==
    /\ \A i \in 1..Len(n.body) : ~IsValidation(n.body[i])
    /\ \E i \in 1..Len(n.body) :
          /\ n.body[i].type = "FunctionDef"
          /\ \E c \in walk(n.body[i]) : IsValidation(c)

\* C29: the search of Rule 2 covers the whole subtree of the function: a
\* raise or membership test that stands only in the body of a nested function
\* suppresses the Rule 2 violation of the enclosing function.
C29_NestedValidationSuppresses ==
    (Visited /\ HasDictTypedParam(node) /\ ValidationOnlyNested(node))
        => Rule2Count(violations) = 0

C29_Witness ==
    /\ Visited
    /\ ~HasExemptName(node)
    /\ \E i \in 1..Len(node.args.args) : node.args.args[i].annotation = Ann_dict
    /\ ValidationOnlyNested(node)
    /\ \E c \in BodyNodes(node) : c.type = "Raise"
    /\ Rule2Count(violations) = 0

\* file f cannot be decoded
Undecodable(f) == f \in FilePaths /\ ~fs[f].decodes

\* C30: check_file recovers from syntax errors only: when a file handed to it
\* cannot be decoded, the exception leaves check_file, check_path and main;
\* the batch ends there, nothing is printed for any file and nothing is
\* returned, and main never goes on past such a file.
C30_UndecodableAbortsBatch ==
    /\ pc = "raised" =>
          /\ Undecodable(analysed[Len(analysed)])
          /\ stdout = <<>>
          /\ rc = NoRc
    /\ \A i \in 1..Len(analysed) :
          Undecodable(analysed[i]) => (pc = "raised" /\ i = Len(analysed))
    /\ \A i \in 1..Len(all_violations) :
          \A f \in FilePaths : Undecodable(f) => ~IsAbout(all_violations[i], f)

C30_Witness ==
    /\ pc = "raised"
    /\ argv = <<P_a, P_d>>
    /\ all_violations # <<>>
    /\ analysed = <<P_a, P_d_a>>
    /\ stdout = <<>>

-----------------------------------------------------------------------------
(* scripts/check_nosemgrep.py: the bypass comment detector. A file is its    *)
(* text; a regular expression of the script is the sequence of its literal   *)
(* pieces, which the script separates by \s*, and whether it ends with $.    *)

\* most lines of a file
MaxLines == 2

S_hash == <<"#">>
S_nosemgrep == <<"n", "o", "s", "e", "m", "g", "r", "e", "p">>
S_noqa == <<"n", "o", "q", "a">>
S_type_colon == <<"t", "y", "p", "e", ":">>
S_ignore == <<"i", "g", "n", "o", "r", "e">>
S_pylint_colon == <<"p", "y", "l", "i", "n", "t", ":">>
S_disable == <<"d", "i", "s", "a", "b", "l", "e">>
S_equals == <<"=">>
S_all == <<"a", "l", "l">>
S_dot_git_slash == <<".", "g", "i", "t", "/">>
S_pycache_slash == <<"_", "_", "p", "y", "c", "a", "c", "h", "e", "_", "_", "/">>
S_dot_pyc == <<".", "p", "y", "c">>
S_venv_slash == <<"v", "e", "n", "v", "/">>
S_dot_venv_slash == <<".", "v", "e", "n", "v", "/">>
S_node_modules_slash ==
    <<"n", "o", "d", "e", "_", "m", "o", "d", "u", "l", "e", "s", "/">>
S_dot_md == <<".", "m", "d">>
S_test_ == <<"t", "e", "s", "t", "_">>
S_conftest_py == <<"c", "o", "n", "f", "t", "e", "s", "t", ".", "p", "y">>

\* |x = 1|
L_plain == <<"x", " ", "=", " ", "1">>
\* |y = 2 # NoSemgrep # noqa|
L_NoSemgrep_noqa ==
    <<"y", " ", "=", " ", "2", " ", "#", " ", "N", "o", "S", "e", "m", "g", "r", "e",
      "p", " ", "#", " ", "n", "o", "q", "a">>
\* |import a  # noqa|
L_noqa ==
    <<"i", "m", "p", "o", "r", "t", " ", "a", " ", " ", "#", " ", "n", "o", "q", "a">>
\* |import a  # noqa: F401|
L_noqa_code ==
    <<"i", "m", "p", "o", "r", "t", " ", "a", " ", " ", "#", " ", "n", "o", "q", "a",
      ":", " ", "F", "4", "0", "1">>
\* |z = 3 # type: ignore  |
L_type_ignore ==
    <<"z", " ", "=", " ", "3", " ", "#", " ", "t", "y", "p", "e", ":", " ", "i", "g",
      "n", "o", "r", "e", " ", " ">>
\* |q = 1 #pylint:disable = all|
L_pylint ==
    <<"q", " ", "=", " ", "1", " ", "#", "p", "y", "l", "i", "n", "t", ":", "d", "i",
      "s", "a", "b", "l", "e", " ", "=", " ", "a", "l", "l">>
\* |# pylint: disable=all # NOQA|
L_pylint_noqa ==
    <<"#", " ", "p", "y", "l", "i", "n", "t", ":", " ", "d", "i", "s", "a", "b", "l",
      "e", "=", "a", "l", "l", " ", "#", " ", "N", "O", "Q", "A">>

\* a pattern of BYPASS_PATTERNS: literal pieces separated by \s*, then \s*$
\* when anchored
Pattern(parts, anchored, description) ==
    [parts |-> parts, anchored |-> anchored, description |-> description]

\* lines 18-23
BYPASS_PATTERNS ==
    << Pattern(<<S_hash, S_nosemgrep>>, FALSE, "# nosemgrep - Semgrep bypass"),
       Pattern(<<S_hash, S_noqa>>, TRUE, "# noqa (blanket) - silences all warnings"),
       Pattern(<<S_hash, S_type_colon, S_ignore>>, TRUE,
               "# type: ignore (blanket) - silences all type errors"),
       Pattern(<<S_hash, S_pylint_colon, S_disable, S_equals, S_all>>, FALSE,
               "# pylint: disable=all - blanket disable") >>

\* \s* from position i of s: the position of the next character that is not
\* white space
RECURSIVE skip_space(_, _)
skip_space(s, i) ==
    IF i <= Len(s) /\ s[i] \in Whitespace THEN skip_space(s, i + 1) ELSE i

\* the pieces match s from position i on
RECURSIVE match_from(_, _, _, _)
match_from(parts, anchored, s, i) ==
    IF parts = <<>> THEN anchored => i = Len(s) + 1
    ELSE /\ i + Len(Head(parts)) - 1 <= Len(s)
         /\ SubSeq(s, i, i + Len(Head(parts)) - 1) = Head(parts)
         /\ match_from(Tail(parts), anchored, s, skip_space(s, i + Len(Head(parts))))

\* re.search(pattern, line, re.IGNORECASE)
re_search_ignorecase(pattern, line) ==
    \E i \in 1..Len(line) : match_from(pattern.parts, pattern.anchored, lower(line), i)

\* an exclusion pattern: a literal, then possibly .* and a second literal,
\* then possibly $
Exclusion(first, rest, anchored) == [first |-> first, rest |-> rest, anchored |-> anchored]

\* lines 26-36
EXCLUDE_PATTERNS ==
    << Exclusion(S_dot_git_slash, <<>>, FALSE),
       Exclusion(S_pycache_slash, <<>>, FALSE),
       Exclusion(S_dot_pyc, <<>>, TRUE),
       Exclusion(S_venv_slash, <<>>, FALSE),
       Exclusion(S_dot_venv_slash, <<>>, FALSE),
       Exclusion(S_node_modules_slash, <<>>, FALSE),
       Exclusion(S_dot_md, <<>>, TRUE),
       Exclusion(S_test_, S_py, TRUE),
       Exclusion(S_conftest_py, <<>>, TRUE) >>

\* sub occurs in s at position i
OccursAt(s, sub, i) ==
    /\ i >= 1
    /\ i + Len(sub) - 1 <= Len(s)
    /\ SubSeq(s, i, i + Len(sub) - 1) = sub

\* re.search(pattern, s) for an exclusion pattern
re_search(pattern, s) ==
    \E i \in 1..Len(s) :
        /\ OccursAt(s, pattern.first, i)
        /\ IF pattern.rest = <<>>
           THEN pattern.anchored => i + Len(pattern.first) - 1 = Len(s)
           ELSE \E j \in (i + Len(pattern.first))..Len(s) :
                    /\ OccursAt(s, pattern.rest, j)
                    /\ pattern.anchored => j + Len(pattern.rest) - 1 = Len(s)

\* lines 39-42
should_exclude(path) ==
    \E k \in 1..Len(EXCLUDE_PATTERNS) : re_search(EXCLUDE_PATTERNS[k], path_str(path))

\* str.splitlines for a text whose only line boundary is "\n"
RECURSIVE splitlines(_)
splitlines(text) ==
    IF text = <<>> THEN <<>>
    ELSE LET ends == {i \in 1..Len(text) : text[i] = "\n"}
         IN  IF ends = {} THEN <<text>>
             ELSE LET k == CHOOSE i \in ends : \A j \in ends : i <= j
                  IN  <<SubSeq(text, 1, k - 1)>> \o splitlines(SubSeq(text, k + 1, Len(text)))

\* mutant: no break, every matching pattern reports the line
RECURSIVE line_violations_no_break(_, _, _)
line_violations_no_break(line_num, line, k) ==
    IF k > Len(BYPASS_PATTERNS) THEN <<>>
    ELSE IF re_search_ignorecase(BYPASS_PATTERNS[k], line)
    THEN <<[line_num |-> line_num, line |-> strip(line),
            description |-> BYPASS_PATTERNS[k].description]>>
         \o line_violations_no_break(line_num, line, k + 1)
    ELSE line_violations_no_break(line_num, line, k + 1)

\* lines 59-63: the loop over BYPASS_PATTERNS from pattern k on, for one line
RECURSIVE line_violations(_, _, _)
line_violations(line_num, line, k) ==
    IF k > Len(BYPASS_PATTERNS) THEN <<>>
    ELSE IF re_search_ignorecase(BYPASS_PATTERNS[k], line)
    THEN <<[line_num |-> line_num, line |-> strip(line),
            description |-> BYPASS_PATTERNS[k].description]>>
    ELSE line_violations(line_num, line, k + 1)

\* lines 58-63: the loop over the lines from line_num on
RECURSIVE lines_violations(_, _)
lines_violations(lines, line_num) ==
    IF line_num > Len(lines) THEN <<>>
    ELSE line_violations(line_num, lines[line_num], 1)
         \o lines_violations(lines, line_num + 1)

\* a file on disk: its bytes decode as UTF-8 to a text, or they do not
Text(content) == [decodes |-> TRUE, content |-> content]
Undecodable_text == [decodes |-> FALSE, content |-> <<>>]

\* lines 52-55: check_file raises RuntimeError
nosemgrep_check_file_raises(file) == ~file.decodes

\* lines 45-65: check_file, for a file that can be read
nosemgrep_check_file(file) == lines_violations(splitlines(file.content), 1)

\* lines 72-78: the files check_directory checks
checked_in_directory(directory) == {f \in PyFilesBelow(directory) : ~should_exclude(f)}

\* lines 68-80: check_directory: the violations of the files below the
\* directory, the files without violation left out (here: holding none)
check_directory(disk, directory) ==
    [f \in FilePaths |->
        IF f \in checked_in_directory(directory)
        THEN nosemgrep_check_file(disk[f]) ELSE <<>>]

\* the lines of the model's files
LineTexts ==
    {L_plain, L_NoSemgrep_noqa, L_noqa_code, L_type_ignore, L_pylint, L_pylint_noqa}

\* "\n".join(lines) + "\n"
RECURSIVE join_lines(_)
join_lines(lines) ==
    IF lines = <<>> THEN <<>> ELSE Head(lines) \o <<"\n">> \o join_lines(Tail(lines))

\* the texts of at most MaxLines lines
Texts ==
    UNION { {join_lines(ls) : ls \in [1..n -> LineTexts]} : n \in 0..MaxLines }

P_src == <<<<"s", "r", "c">>>>
P_tests == <<<<"t", "e", "s", "t", "s">>>>

\* the disks of the model: a.py holds any text, d/a.py a clean line, a bypass
\* or bytes that do not decode, the test files and r.md a bypass, the others
\* a clean line
NosemgrepDisks ==
    { [f \in FilePaths |->
          IF f = P_a THEN Text(t)
          ELSE IF f = P_d_a THEN c
          ELSE IF f \in {P_test_b, P_d_test_c, P_d_r} THEN Text(join_lines(<<L_noqa>>))
          ELSE Text(join_lines(<<L_plain>>))] :
      t \in Texts,
      c \in {Text(join_lines(<<L_plain>>)), Text(join_lines(<<L_pylint>>)),
             Undecodable_text} }

\* the command lines of the model
NosemgrepArgs ==
    {<<>>, <<P_a>>, <<P_d>>, <<P_test_b>>, <<P_x, P_a>>, <<P_a, P_d>>, <<P_a, P_a>>,
     <<P_d_test_c, P_x>>}

\* line 85: the paths given, or src and tests
effective_paths == IF ns_paths # <<>> THEN ns_paths ELSE <<P_src, P_tests>>

\* the paths of all_violations: the files that hold a violation
ViolationKeys(found) == {f \in FilePaths : found[f] # <<>>}

NoViolations == [f \in FilePaths |-> <<>>]

\* dict.update
update(found, results) ==
    [f \in FilePaths |-> IF results[f] # <<>> THEN results[f] ELSE found[f]]

InitNosemgrep ==
    /\ pc = "ns_main"
    /\ ns_files \in NosemgrepDisks
    /\ ns_paths \in NosemgrepArgs
    /\ ns_idx = 0
    /\ ns_violations = NoViolations
    /\ ns_checked = {}
    /\ ns_rc = NoRc
    /\ LinterIdle /\ ValidatedIdle /\ ModelsIdle /\ CountIdle /\ RunnerIdle

\* lines 85-94: the banner is printed and the loop over the paths begins
nosemgrep_main_begin ==
    /\ pc = "ns_main"
    /\ ns_idx' = 1
    /\ ns_violations' = NoViolations
    /\ pc' = "ns_loop"
    /\ UNCHANGED <<ns_files, ns_paths, ns_checked, ns_rc>>
    /\ UNCHANGED <<linter_vars, validated_vars, models_vars, count_vars, runner_vars>>

\* lines 97-99: the path does not exist, main reports it and goes on
nosemgrep_main_skip ==
    /\ pc = "ns_loop"
    /\ ns_idx <= Len(effective_paths)
    /\ ~exists(effective_paths[ns_idx])
    /\ ns_idx' = ns_idx + 1
    /\ UNCHANGED <<pc, ns_files, ns_paths, ns_violations, ns_checked, ns_rc>>
    /\ UNCHANGED <<linter_vars, validated_vars, models_vars, count_vars, runner_vars>>

\* lines 101-104: the path is a file: it is checked, whatever its name
nosemgrep_main_file ==
    /\ pc = "ns_loop"
    /\ ns_idx <= Len(effective_paths)
    /\ LET path == effective_paths[ns_idx]
       IN  /\ is_file(path)
           /\ ~nosemgrep_check_file_raises(ns_files[path])
           /\ ns_violations' =
                  [ns_violations EXCEPT ![path] =
                      IF nosemgrep_check_file(ns_files[path]) # <<>>
                      THEN nosemgrep_check_file(ns_files[path]) ELSE @]
           /\ ns_checked' = ns_checked \cup {path}
    /\ ns_idx' = ns_idx + 1
    /\ UNCHANGED <<pc, ns_files, ns_paths, ns_rc>>
    /\ UNCHANGED <<linter_vars, validated_vars, models_vars, count_vars, runner_vars>>

\* lines 105-107: the path is a directory
nosemgrep_main_directory ==
    /\ pc = "ns_loop"
    /\ ns_idx <= Len(effective_paths)
    /\ LET path == effective_paths[ns_idx]
       IN  /\ exists(path)
           /\ ~is_file(path)
           /\ \A f \in checked_in_directory(path) :
                  ~nosemgrep_check_file_raises(ns_files[f])
           /\ ns_violations' = update(ns_violations, check_directory(ns_files, path))
           /\ ns_checked' = ns_checked \cup checked_in_directory(path)
    /\ ns_idx' = ns_idx + 1
    /\ UNCHANGED <<pc, ns_files, ns_paths, ns_rc>>
    /\ UNCHANGED <<linter_vars, validated_vars, models_vars, count_vars, runner_vars>>

\* lines 52-55: a file cannot be read, RuntimeError leaves check_file and main
nosemgrep_main_raise ==
    /\ pc = "ns_loop"
    /\ ns_idx <= Len(effective_paths)
    /\ LET path == effective_paths[ns_idx]
       IN  \/ is_file(path) /\ nosemgrep_check_file_raises(ns_files[path])
           \/ /\ exists(path)
              /\ ~is_file(path)
              /\ \E f \in checked_in_directory(path) :
                     nosemgrep_check_file_raises(ns_files[f])
    /\ pc' = "ns_raised"
    /\ UNCHANGED <<ns_files, ns_paths, ns_idx, ns_violations, ns_checked, ns_rc>>
    /\ UNCHANGED <<linter_vars, validated_vars, models_vars, count_vars, runner_vars>>

\* lines 109-137: the loop is over, main reports and returns
nosemgrep_main_return ==
    /\ pc = "ns_loop"
    /\ ns_idx > Len(effective_paths)
    /\ ns_rc' = IF ViolationKeys(ns_violations) = {} THEN 0 ELSE 1
    /\ pc' = "ns_done"
    /\ UNCHANGED <<ns_files, ns_paths, ns_idx, ns_violations, ns_checked>>
    /\ UNCHANGED <<linter_vars, validated_vars, models_vars, count_vars, runner_vars>>

NextNosemgrep ==
    \/ nosemgrep_main_begin
    \/ nosemgrep_main_skip
    \/ nosemgrep_main_file
    \/ nosemgrep_main_directory
    \/ nosemgrep_main_raise
    \/ nosemgrep_main_return

SpecNosemgrep == InitNosemgrep /\ [][NextNosemgrep]_vars

-----------------------------------------------------------------------------
(* Properties of the bypass comment detector (SpecNosemgrep) *)

\* the patterns of BYPASS_PATTERNS that match the line
Matching(line) ==
    {k \in 1..Len(BYPASS_PATTERNS) : re_search_ignorecase(BYPASS_PATTERNS[k], line)}

\* the lines of a file on disk
LinesOf(f) == splitlines(ns_files[f].content)

\* C25: for every checked file, no line is reported twice, a reported line
\* carries the description of the first pattern of BYPASS_PATTERNS that
\* matches it, and every line that some pattern matches is reported; main
\* returns 1 exactly when a checked file holds a reported line, 0 otherwise
C25_FirstPatternPerLine ==
    /\ pc \in {"ns_loop", "ns_done"} =>
        \A f \in ns_checked :
            LET found == ns_violations[f]
                lines == LinesOf(f)
                hits == [n \in 1..Len(lines) |-> Matching(lines[n])]
            IN  /\ \A i, j \in 1..Len(found) :
                       found[i].line_num = found[j].line_num => i = j
                /\ \A i \in 1..Len(found) :
                       /\ found[i].line_num \in 1..Len(lines)
                       /\ \E k \in hits[found[i].line_num] :
                              /\ \A m \in hits[found[i].line_num] : k <= m
                              /\ found[i].description = BYPASS_PATTERNS[k].description
                /\ \A n \in 1..Len(lines) :
                       hits[n] # {} => \E i \in 1..Len(found) : found[i].line_num = n
    /\ pc = "ns_done" =>
        /\ ns_rc \in {0, 1}
        /\ ns_rc = 1 <=>
               \E f \in ns_checked : \E n \in 1..Len(LinesOf(f)) :
                   Matching(LinesOf(f)[n]) # {}

\* main returned 1 after a file was checked in which a line matched by two
\* patterns is reported once, and another file was checked that holds no
\* bypass
C25_Witness ==
    /\ pc = "ns_done"
    /\ ns_rc = 1
    /\ \E f \in ns_checked :
           \E n \in 1..Len(LinesOf(f)) :
               /\ Cardinality(Matching(LinesOf(f)[n])) = 2
               /\ \E i \in 1..Len(ns_violations[f]) : ns_violations[f][i].line_num = n
    /\ \E f \in ns_checked : ns_violations[f] = <<>>

-----------------------------------------------------------------------------
(* scripts/run_all_tests.py: the test runner. The configuration is the       *)
(* dictionary parse_venvs_config returns, with what the disk holds for each  *)
(* module; a tool run in a venv passes or fails as the subprocess decides.   *)
(* A message is its tag, module and tool: the tool's output, which the       *)
(* script appends to the message, is left out.                               *)

\* most modules of config/venvs.yaml
MaxModules == 2

\* the module names, in the order of the configuration file
ModuleNames == <<"core", "pose", "audio", "video">>

\* a value of the configuration: None, or a text
Missing == <<>>
Given(text) == <<text>>

\* what the configuration says of one module and what the disk holds for it:
\* the tests directory exists only if it is configured, and the venv's Python
\* matters only if the tests directory exists
ModuleConfigs ==
    { c \in [venv : {Missing, Given("venv")}, tests : {Missing, Given("tests")},
             tests_exists : BOOLEAN, python_exists : BOOLEAN] :
        /\ c.tests_exists => c.tests # Missing
        /\ c.python_exists => c.tests_exists }

\* the command lines of the model
RunnerArgs ==
    {<<>>, <<"-v">>, <<"--module">>, <<"--module", "core">>, <<"--module", "pose">>,
     <<"--module", "zzz">>, <<"core", "--module">>}

\* lines 174-177: the argument after the last --module that has one
parse_target(args) ==
    LET at == {i \in 1..Len(args) : args[i] = "--module" /\ i + 1 <= Len(args)}
    IN  IF at = {} THEN Missing
        ELSE Given(args[(CHOOSE i \in at : \A j \in at : j <= i) + 1])

\* line 171
verbose(args) == \E i \in 1..Len(args) : args[i] \in {"--verbose", "-v"}

\* target_module in modules
Configured(name, mods) == \E i \in 1..Len(mods) : mods[i].name = name

\* line 187: {target_module: modules[target_module]}
only(name, mods) == SelectSeq(mods, LAMBDA m : m.name = name)

Message(tag, module, tool) == [tag |-> tag, module |-> module, tool |-> tool]
Result(passed, message) == [passed |-> passed, message |-> message]
ToolRun(module, tool, v) == [module |-> module, tool |-> tool, verbose |-> v]

\* lines 133-136 and 142 (resolve_python, lines 85-102): run_module_checks
\* raises RuntimeError or FileNotFoundError
run_module_checks_raises(m) ==
    \/ m.venv = Missing
    \/ m.tests = Missing
    \/ m.tests_exists /\ ~m.python_exists

\* mutant: mypy is not run after a failed pytest
run_module_checks_stop_on_failure(m, v, pytest_passed, mypy_passed) ==
    IF ~m.tests_exists
    THEN [results |-> <<Result(TRUE, Message("SKIP", m.name, "none"))>>, runs |-> <<>>]
    ELSE IF ~pytest_passed
    THEN [results |-> <<Result(FALSE, Message("FAIL", m.name, "pytest"))>>,
          runs |-> <<ToolRun(m.name, "pytest", v)>>]
    ELSE [results |->
              << Result(TRUE, Message("OK", m.name, "pytest")),
                 Result(mypy_passed,
                        Message(IF mypy_passed THEN "OK" ELSE "FAIL", m.name, "mypy")) >>,
          runs |-> <<ToolRun(m.name, "pytest", v), ToolRun(m.name, "mypy", v)>>]

\* lines 124-166: run_module_checks when it does not raise: the results it
\* returns and the tools it ran, pytest and mypy passing as the venv decides
run_module_checks(m, v, pytest_passed, mypy_passed) ==
    IF ~m.tests_exists
    THEN [results |-> <<Result(TRUE, Message("SKIP", m.name, "none"))>>, runs |-> <<>>]
    ELSE [results |->
              << Result(pytest_passed,
                        Message(IF pytest_passed THEN "OK" ELSE "FAIL", m.name, "pytest")),
                 Result(mypy_passed,
                        Message(IF mypy_passed THEN "OK" ELSE "FAIL", m.name, "mypy")) >>,
          runs |-> <<ToolRun(m.name, "pytest", v), ToolRun(m.name, "mypy", v)>>]

\* lines 200-205: the messages of check_results
RECURSIVE messages(_)
messages(check_results) ==
    IF check_results = <<>> THEN <<>>
    ELSE <<Head(check_results).message>> \o messages(Tail(check_results))

\* lines 200-205: how many of check_results passed, or failed
RECURSIVE count_results(_, _)
count_results(check_results, passed) ==
    IF check_results = <<>> THEN 0
    ELSE (IF Head(check_results).passed = passed THEN 1 ELSE 0)
         + count_results(Tail(check_results), passed)

\* lines 214-218: the RESULT line
ResultLine(passed, failed) ==
    [all_passed |-> failed = 0, failed |-> failed, passed |-> passed,
     total |-> passed + failed]

InitRunner ==
    /\ pc = "tr_main"
    /\ tr_argv \in RunnerArgs
    /\ \E n \in 0..MaxModules :
           \E cs \in [1..n -> ModuleConfigs] :
               modules = [i \in 1..n |->
                             [name |-> ModuleNames[i], venv |-> cs[i].venv,
                              tests |-> cs[i].tests,
                              tests_exists |-> cs[i].tests_exists,
                              python_exists |-> cs[i].python_exists]]
    /\ selected = <<>>
    /\ mod_idx = 0
    /\ all_results = <<>>
    /\ total_passed = 0
    /\ total_failed = 0
    /\ tool_runs = <<>>
    /\ summary = <<>>
    /\ tr_rc = NoRc
    /\ LinterIdle /\ ValidatedIdle /\ ModelsIdle /\ CountIdle /\ NosemgrepIdle

\* lines 180-181: no module is configured, main raises RuntimeError
runner_main_no_modules ==
    /\ pc = "tr_main"
    /\ modules = <<>>
    /\ pc' = "tr_raised"
    /\ UNCHANGED runner_vars
    /\ UNCHANGED <<linter_vars, validated_vars, models_vars, count_vars, nosemgrep_vars>>

\* lines 183-186: the module asked for is not configured, main returns 1
runner_main_unknown_module ==
    /\ pc = "tr_main"
    /\ modules # <<>>
    /\ parse_target(tr_argv) # Missing
    /\ ~Configured(parse_target(tr_argv)[1], modules)
    /\ tr_rc' = 1
    /\ pc' = "tr_done"
    /\ UNCHANGED <<tr_argv, modules, selected, mod_idx, all_results, total_passed,
                   total_failed, tool_runs, summary>>
    /\ UNCHANGED <<linter_vars, validated_vars, models_vars, count_vars, nosemgrep_vars>>

\* lines 183-196: the modules to run are chosen and the loop begins
runner_main_begin ==
    /\ pc = "tr_main"
    /\ modules # <<>>
    /\ parse_target(tr_argv) # Missing => Configured(parse_target(tr_argv)[1], modules)
    /\ selected' = IF parse_target(tr_argv) # Missing
                   THEN only(parse_target(tr_argv)[1], modules) ELSE modules
    /\ mod_idx' = 1
    /\ all_results' = <<>>
    /\ total_passed' = 0
    /\ total_failed' = 0
    /\ pc' = "tr_loop"
    /\ UNCHANGED <<tr_argv, modules, tool_runs, summary, tr_rc>>
    /\ UNCHANGED <<linter_vars, validated_vars, models_vars, count_vars, nosemgrep_vars>>

\* line 199: run_module_checks raises, the exception leaves main
runner_main_module_raise ==
    /\ pc = "tr_loop"
    /\ mod_idx <= Len(selected)
    /\ run_module_checks_raises(selected[mod_idx])
    /\ pc' = "tr_raised"
    /\ UNCHANGED runner_vars
    /\ UNCHANGED <<linter_vars, validated_vars, models_vars, count_vars, nosemgrep_vars>>

\* lines 198-205: one module is checked and its results are counted
runner_main_module ==
    /\ pc = "tr_loop"
    /\ mod_idx <= Len(selected)
    /\ ~run_module_checks_raises(selected[mod_idx])
    /\ \E pytest_passed, mypy_passed \in BOOLEAN :
           LET done == run_module_checks(selected[mod_idx], verbose(tr_argv),
                                         pytest_passed, mypy_passed)
           IN  /\ all_results' = all_results \o messages(done.results)
               /\ total_passed' = total_passed + count_results(done.results, TRUE)
               /\ total_failed' = total_failed + count_results(done.results, FALSE)
               /\ tool_runs' = tool_runs \o done.runs
    /\ mod_idx' = mod_idx + 1
    /\ UNCHANGED <<pc, tr_argv, modules, selected, summary, tr_rc>>
    /\ UNCHANGED <<linter_vars, validated_vars, models_vars, count_vars, nosemgrep_vars>>

\* lines 207-221: the loop is over, main prints the RESULT line and returns
runner_main_report ==
    /\ pc = "tr_loop"
    /\ mod_idx > Len(selected)
    /\ summary' = <<ResultLine(total_passed, total_failed)>>
    /\ tr_rc' = IF total_failed = 0 THEN 0 ELSE 1
    /\ pc' = "tr_done"
    /\ UNCHANGED <<tr_argv, modules, selected, mod_idx, all_results, total_passed,
                   total_failed, tool_runs>>
    /\ UNCHANGED <<linter_vars, validated_vars, models_vars, count_vars, nosemgrep_vars>>

NextRunner ==
    \/ runner_main_no_modules
    \/ runner_main_unknown_module
    \/ runner_main_begin
    \/ runner_main_module_raise
    \/ runner_main_module
    \/ runner_main_report

SpecRunner == InitRunner /\ [][NextRunner]_vars

-----------------------------------------------------------------------------
(* Properties of the test runner (SpecRunner) *)

\* the messages of all_results about a module, and those about a module and
\* a tool
About(name) == SelectSeq(all_results, LAMBDA r : r.module = name)
AboutTool(name, tool) == SelectSeq(all_results, LAMBDA r : r.module = name /\ r.tool = tool)

\* a check result is a failure
SomeFailure == \E i \in 1..Len(all_results) : all_results[i].tag = "FAIL"

\* the tool was run for the module
Ran(name, tool) == \E i \in 1..Len(tool_runs) :
    tool_runs[i].module = name /\ tool_runs[i].tool = tool

\* the modules main was asked to check: all, or the one named by --module
Asked ==
    IF parse_target(tr_argv) = Missing THEN modules
    ELSE only(parse_target(tr_argv)[1], modules)

\* what the claim says of the results of one module
ModuleChecked(m) ==
    IF m.tests_exists
    THEN /\ Ran(m.name, "pytest")
         /\ Ran(m.name, "mypy")
         /\ Len(About(m.name)) = 2
         /\ Len(AboutTool(m.name, "pytest")) = 1
         /\ Len(AboutTool(m.name, "mypy")) = 1
    ELSE /\ Len(About(m.name)) = 1
         /\ About(m.name)[1].tag = "SKIP"
         /\ ~Ran(m.name, "pytest")
         /\ ~Ran(m.name, "mypy")

\* the counts the claim speaks of
Tallied ==
    /\ total_passed + total_failed = Len(all_results)
    /\ total_failed = Len(SelectSeq(all_results, LAMBDA r : r.tag = "FAIL"))
    /\ summary # <<>>
    /\ summary[1].total = summary[1].passed + summary[1].failed
    /\ summary[1].passed = total_passed
    /\ summary[1].failed = total_failed

\* main returned because the module asked for is not configured
UnknownModule ==
    /\ pc = "tr_done"
    /\ parse_target(tr_argv) # Missing
    /\ ~Configured(parse_target(tr_argv)[1], modules)

\* C26: as stated: whenever main returns, it returns 0 exactly when no check
\* result is a failure, the reported total is passed plus failed, and every
\* module asked for has its two results, or its single passed result when
\* its tests directory is missing
C26_ZeroIffNoFailure ==
    pc = "tr_done" =>
        /\ tr_rc = 0 <=> ~SomeFailure
        /\ Tallied
        /\ \A i \in 1..Len(Asked) : ModuleChecked(Asked[i])

\* C26, amended: when main returns after the loop over the modules, it
\* returns 0 exactly when no check result is a failure, the reported total is
\* passed plus failed, and every module it ran has its pytest and its mypy
\* result, whatever pytest said, or its single passed result when its tests
\* directory is missing; when the module asked for is not configured main
\* returns 1 and no check is run
C26_ZeroIffNoFailureWhenRun ==
    /\ pc = "tr_done" /\ ~UnknownModule =>
        /\ tr_rc \in {0, 1}
        /\ tr_rc = 0 <=> ~SomeFailure
        /\ Tallied
        /\ selected = Asked
        /\ \A i \in 1..Len(selected) : ModuleChecked(selected[i])
    /\ UnknownModule =>
        /\ tr_rc = 1
        /\ all_results = <<>>
        /\ tool_runs = <<>>
        /\ summary = <<>>

\* main returned 1 after two modules: for one pytest failed and mypy was run
\* all the same, the other has no tests directory and counts as passed
C26_Witness ==
    /\ pc = "tr_done"
    /\ tr_rc = 1
    /\ \E i, j \in 1..Len(selected) :
           /\ selected[i].tests_exists
           /\ AboutTool(selected[i].name, "pytest")[1].tag = "FAIL"
           /\ AboutTool(selected[i].name, "mypy")[1].tag = "OK"
           /\ ~selected[j].tests_exists
    /\ total_passed = 2
    /\ total_failed = 1

====
